---------------------------- MODULE Spec2Model ----------------------------
(***************************************************************************)
(* Fleet battle: commander election, escort slots, the escort lock state   *)
(* machine and the frame loop that drives them.                            *)
(*                                                                         *)
(* Revision modelled: src/js/entities.js, src/js/game.js, the AI module    *)
(* src/unnamed/part_002 (the revision with the dwell timer) and the        *)
(* combat/config code in src/old/js/config.js.                             *)
(*                                                                         *)
(* Units: time in milliseconds (the code uses seconds), distance in world  *)
(* units.  Geometry is an input: the distance of a ship to its formation   *)
(* point, what it can see and whether it reached a waypoint are drawn per  *)
(* step from small sets of representative values.                          *)
(***************************************************************************)
EXTENDS Integers, Sequences, FiniteSets, TLC

VARIABLES
  player,        \* state.player: sequence of ship records
  enemy,         \* state.enemy
  started,       \* state.started
  ended,         \* state.ended
  spectatorMode, \* state.spectatorMode
  gameSpeed,     \* state.gameSpeed
  selected,      \* state.selected (1-based here)
  pc,            \* position inside tick(): "idle" | "ai" | "combat"
  idx,           \* position of the ship loops of tick(), player ships first
  dt,            \* the frame's dt
  capital,       \* tick's local: the player ship elected at the top of the frame
  lastCall,      \* history: the last pickCapitalLeader call of this step
  lastStep,      \* history: the last lock-state-machine step of this step
  hist,          \* history: per ship, the current run of in-radius ticks
  bench          \* the ship, pair or chart a single function is exercised on

vars == <<player, enemy, started, ended, spectatorMode, gameSpeed, selected,
          pc, idx, dt, capital, lastCall, lastStep, hist, bench>>

-----------------------------------------------------------------------------
(* Program constants *)

ESCORT_LOCK_RADIUS == 60

\* capitalAutoPilot/aiStep: farOutside = dForm > ESCORT_LOCK_RADIUS * 3
UNLOCK_FACTOR == 3

\* capitalAutoPilot/aiStep: timeInPosition >= 2.0 (seconds)
MIN_DWELL == 2000

\* tick: dt = clamp((now - last) / 1000, 0, 0.033)
DT_CLAMP == 33

\* pickCapitalLeader: const priority = ['BB', 'CV', 'DD', 'TB']
PriorityMutCvFirst == <<"CV", "BB", "TB", "DD">>

Priority == <<"BB", "CV", "DD", "TB">>

Kinds == {"BB", "CV", "DD", "TB"}

IsCapital(k) == k = "CV" \/ k = "BB"

IsEscort(k) == k = "DD" \/ k = "TB"

Teams == {"P", "E"}

-----------------------------------------------------------------------------
(* Bounds and input sets *)

\* accumulated in-radius time an escort is followed for
MaxTimer == 2200

\* dForm: on the slot, on the lock radius, on the unlock radius, 4 x lock radius
DistChoices == {0, ESCORT_LOCK_RADIUS, ESCORT_LOCK_RADIUS * UNLOCK_FACTOR,
                ESCORT_LOCK_RADIUS * 4}

\* dForm of a fleet that is still forming up
DistFar == {ESCORT_LOCK_RADIUS * 4}

\* waypoints a planner may return
Routes == {<<"a">>}

\* rosters in spawn order (generateEscortFormation: CV, then BB, then escorts)
Rosters == {<<<<"CV", "BB", "BB">>, <<"BB">>>>,
            <<<<"BB">>, <<"BB", "DD", "TB">>>>}

\* fleets handed to pickCapitalLeader on its own, in any array order
RostersPick == {<<"CV", "BB", "BB">>, <<"BB", "DD", "TB">>,
                <<"TB", "DD", "CV">>, <<"DD", "CV", "BB">>}

RostersLock == {<<<<"BB", "DD">>, <<"BB">>>>,
                <<<<"BB">>, <<"BB", "DD">>>>}

-----------------------------------------------------------------------------
(* Helpers *)

Min(S) == CHOOSE x \in S : \A y \in S : x <= y

Idx(arr) == DOMAIN arr

AliveIdx(arr) == {i \in Idx(arr) : arr[i].alive}

\* arr.filter(pred)[0] as an index, 0 when there is none
FirstOf(S) == IF S = {} THEN 0 ELSE Min(S)

\* ascending list of a set of indices (Array.prototype.filter keeps order)
RECURSIVE SeqOf(_)
SeqOf(S) == IF S = {} THEN <<>> ELSE <<Min(S)>> \o SeqOf(S \ {Min(S)})

\* position of x in sequence s (x occurs in s)
PosIn(s, x) == CHOOSE p \in DOMAIN s : s[p] = x

Perms(S) == {f \in [1..Cardinality(S) -> S] : \A a, b \in DOMAIN f : f[a] = f[b] => a = b}

-----------------------------------------------------------------------------
(* entities.js *)

mkShip(kind) ==
  [kind |-> kind, alive |-> TRUE, hp |-> 1,
   isCommander |-> FALSE, plannedPath |-> <<>>, routeState |-> "patrol",
   wp |-> "spawn",
   escortPosition |-> 0,             \* null; slot i of the code is i + 1 here
   form |-> <<"none", 0, 0>>,        \* (formF, formR) = (0, 0)
   escortTarget |-> 0,               \* undefined
   escortLocked |-> FALSE,           \* undefined, read as false
   timeInPosition |-> 0]             \* undefined, initialised to 0 on first use

\* for (const s of arr) if (s) s.isCommander = false
ClearFlagsMutKeep(arr) == arr

ClearFlags(arr) == [i \in Idx(arr) |-> [arr[i] EXCEPT !.isCommander = FALSE]]

\* alive.find(s => s.isCommander)
CurrentCommanderMutNone(arr) == 0

CurrentCommander(arr) == FirstOf({i \in AliveIdx(arr) : arr[i].isCommander})

\* candidate.isCommander = true; plannedPath = []; routeState = 'patrol'
InstallMutKeepRoute(ship) == [ship EXCEPT !.isCommander = TRUE]

Install(ship) ==
  [ship EXCEPT !.isCommander = TRUE, !.plannedPath = <<>>, !.routeState = "patrol"]

\* the first priority class with a living ship, as a position in Priority; 0 if none
FirstLivingClass(arr) ==
  FirstOf({p \in DOMAIN Priority : \E i \in AliveIdx(arr) : arr[i].kind = Priority[p]})

\* returns the array after the call and the returned ship (0 for null)
pickCapitalLeader(arr) ==
  LET alive == AliveIdx(arr) IN
  IF alive = {} THEN [arr |-> arr, leader |-> 0]
  ELSE IF CurrentCommander(arr) # 0 THEN [arr |-> arr, leader |-> CurrentCommander(arr)]
  ELSE IF FirstLivingClass(arr) # 0
    THEN LET type == Priority[FirstLivingClass(arr)]
             candidate == Min({i \in alive : arr[i].kind = type})
             cleared == ClearFlags(arr)
         IN [arr |-> [cleared EXCEPT ![candidate] = Install(cleared[candidate])],
             leader |-> candidate]
    ELSE \* fallback to first alive
         [arr |-> [arr EXCEPT ![Min(alive)] =
                     [arr[Min(alive)] EXCEPT !.isCommander = TRUE, !.routeState = "patrol"]],
          leader |-> Min(alive)]

\* getEscortPositions(n, sep)[i]: the offsets are a function of (i, n)
getEscortPosition(i, n) == <<"ring", i, n>>

\* the slots are left as they were
AssignSlotsMutKeep(arr, order) == arr

\* arr with escorts (a list of indices, in slot order) given slots 1..Len
AssignSlots(arr, order) ==
  [i \in Idx(arr) |->
     IF \E p \in DOMAIN order : order[p] = i
       THEN [arr[i] EXCEPT !.escortPosition = PosIn(order, i),
                           !.form = getEscortPosition(PosIn(order, i), Len(order))]
       ELSE arr[i]]

\* escortsByDist is the escorts sorted by distance to the capitals' centre: an input
assignEscortPositions(teamArr, escortsByDist) ==
  LET capitals == {i \in Idx(teamArr) : IsCapital(teamArr[i].kind)}
      escorts == {i \in Idx(teamArr) : IsEscort(teamArr[i].kind)}
  IN IF capitals = {} \/ escorts = {} THEN teamArr
     ELSE AssignSlots(teamArr, escortsByDist)

\* a.escortPosition ?? 999
SlotKeyMutDescending(ship) == IF ship.escortPosition = 0 THEN 1000 ELSE 0 - ship.escortPosition

SlotKey(ship) == IF ship.escortPosition = 0 THEN 1000 ELSE ship.escortPosition

\* stable sort of the indices S by SlotKey
SortedBySlotMutByIndex(arr, S) == SeqOf(S)

SortedBySlot(arr, S) ==
  LET before(a, b) == \/ SlotKey(arr[a]) < SlotKey(arr[b])
                      \/ SlotKey(arr[a]) = SlotKey(arr[b]) /\ a < b
      rank(a) == Cardinality({b \in S : before(b, a)}) + 1
  IN [p \in 1..Cardinality(S) |-> CHOOSE a \in S : rank(a) = p]

reassignEscortPositionsMutNoGuard(teamArr) ==
  LET escorts == {i \in AliveIdx(teamArr) : IsEscort(teamArr[i].kind)}
  IN AssignSlots(teamArr, SortedBySlot(teamArr, escorts))

reassignEscortPositions(teamArr) ==
  LET escorts == {i \in AliveIdx(teamArr) : IsEscort(teamArr[i].kind)}
      capitals == {i \in AliveIdx(teamArr) : IsCapital(teamArr[i].kind)}
  IN IF capitals = {} \/ escorts = {} THEN teamArr
     ELSE AssignSlots(teamArr, SortedBySlot(teamArr, escorts))

setFormation(teamArr) ==
  LET cv == SeqOf({i \in Idx(teamArr) : teamArr[i].kind = "CV"})
      bb == SeqOf({i \in Idx(teamArr) : teamArr[i].kind = "BB"})
      escorts == SeqOf({i \in Idx(teamArr) : IsEscort(teamArr[i].kind)})
      first(s) == IF s = <<>> THEN 0 ELSE s[1]
      either(a, b) == IF a # 0 THEN a ELSE b
      firstShip == IF teamArr = <<>> THEN 0 ELSE 1
      commander == either(first(bb), either(first(cv), firstShip))
      center == either(first(cv), either(first(bb), firstShip))
      place(i) ==
        LET s == [teamArr[i] EXCEPT !.isCommander = (@ \/ i = commander)] IN
        IF center = 0 THEN s
        ELSE IF s.kind = "CV"
          THEN [s EXCEPT !.form = <<"center", 0, 0>>,
                         !.escortTarget = IF commander # i THEN commander ELSE 0]
        ELSE IF s.kind = "BB"
          THEN IF i = commander
                 THEN [s EXCEPT !.form = <<"front", 0, 0>>, !.escortTarget = 0]
                 ELSE [s EXCEPT !.form = <<"inner", PosIn(bb, i), Len(bb)>>,
                                !.escortTarget = either(first(cv), commander)]
        ELSE [s EXCEPT !.escortPosition = PosIn(escorts, i),
                       !.form = getEscortPosition(PosIn(escorts, i), Len(escorts)),
                       !.escortTarget = center]
  IN [i \in Idx(teamArr) |-> place(i)]

-----------------------------------------------------------------------------
(* ai.js: the escort lock state machine (capitalAutoPilot, aiStep, aiStepPlayer) *)

\* const inRadius = dForm <= ESCORT_LOCK_RADIUS
InRadius(d) == d <= ESCORT_LOCK_RADIUS

\* const farOutside = dForm > ESCORT_LOCK_RADIUS * 3
FarOutsideMutLockRadius(d) == d > ESCORT_LOCK_RADIUS

FarOutside(d) == d > ESCORT_LOCK_RADIUS * UNLOCK_FACTOR

\* if (inRadius) timeInPosition += dt; else if (!escortLocked) timeInPosition = 0
TrackTime(locked, t, d, dtv) ==
  IF InRadius(d) THEN t + dtv
  ELSE IF ~locked THEN 0
  ELSE t

\* the lock/unlock statement; flips counts the assignments that change escortLocked
LockTransitionMutNoDwell(locked, t, d, hasEnemy) ==
  IF locked /\ FarOutside(d)
    THEN [escortLocked |-> FALSE, timeInPosition |-> 0, flips |-> 1]
  ELSE IF ~locked /\ t > 0
    THEN [escortLocked |-> TRUE, timeInPosition |-> t, flips |-> 1]
  ELSE [escortLocked |-> locked, timeInPosition |-> t, flips |-> 0]

LockTransitionMutEnemyUnlocks(locked, t, d, hasEnemy) ==
  IF locked /\ (FarOutside(d) \/ hasEnemy)
    THEN [escortLocked |-> FALSE, timeInPosition |-> 0, flips |-> 1]
  ELSE IF ~locked /\ t >= MIN_DWELL
    THEN [escortLocked |-> TRUE, timeInPosition |-> t, flips |-> 1]
  ELSE [escortLocked |-> locked, timeInPosition |-> t, flips |-> 0]

LockTransitionMutTwoIfs(locked, t, d, hasEnemy) ==
  LET unlock == locked /\ FarOutside(d)
      l1 == IF unlock THEN FALSE ELSE locked
      relock == ~l1 /\ t >= MIN_DWELL
  IN [escortLocked |-> (l1 \/ relock), timeInPosition |-> t,
      flips |-> (IF unlock THEN 1 ELSE 0) + (IF relock THEN 1 ELSE 0)]

LockTransitionMutLongDwell(locked, t, d, hasEnemy) ==
  IF locked /\ FarOutside(d)
    THEN [escortLocked |-> FALSE, timeInPosition |-> 0, flips |-> 1]
  ELSE IF ~locked /\ t >= MIN_DWELL * 2
    THEN [escortLocked |-> TRUE, timeInPosition |-> t, flips |-> 1]
  ELSE [escortLocked |-> locked, timeInPosition |-> t, flips |-> 0]

LockTransition(locked, t, d, hasEnemy) ==
  IF locked /\ FarOutside(d)
    THEN [escortLocked |-> FALSE, timeInPosition |-> 0, flips |-> 1]
  ELSE IF ~locked /\ t >= MIN_DWELL
    THEN [escortLocked |-> TRUE, timeInPosition |-> t, flips |-> 1]
  ELSE [escortLocked |-> locked, timeInPosition |-> t, flips |-> 0]

\* one pass of a non-commander through the state machine
LockStep(ship, d, hasEnemy, dtv) ==
  LockTransition(ship.escortLocked,
                 TrackTime(ship.escortLocked, ship.timeInPosition, d, dtv),
                 d, hasEnemy)

FollowFormation(ship, d, hasEnemy, dtv) ==
  [ship EXCEPT !.escortLocked = LockStep(ship, d, hasEnemy, dtv).escortLocked,
               !.timeInPosition = LockStep(ship, d, hasEnemy, dtv).timeInPosition]

-----------------------------------------------------------------------------
(* ai.js: commander behaviour (capitalAutoPilot, aiStep, aiStepPlayer) *)

\* what the commander sees: nothing, an enemy out of orbit range, a capital within it
Sights == {"none", "ship", "capitalNear"}

SightsLock == {"none"}

\* the commander branch planning its engagement route with no enemy in sight
CommandFleetMutBlind(ship, vis, arrived, engageRoute, patrolRoute) ==
  LET s1 == IF ship.routeState = "patrol"
              THEN [ship EXCEPT !.plannedPath = engageRoute,
                                !.routeState = "engaging",
                                !.wp = engageRoute[1]]
              ELSE ship
      rest == Tail(s1.plannedPath)
      s2 == IF s1.plannedPath # <<>> /\ arrived
              THEN [s1 EXCEPT !.plannedPath = rest,
                              !.wp = IF rest # <<>> THEN rest[1] ELSE @]
              ELSE s1
      s3 == IF s2.plannedPath = <<>>
              THEN [s2 EXCEPT !.plannedPath = patrolRoute, !.wp = patrolRoute[1]]
              ELSE s2
  IN IF vis = "capitalNear" /\ s1.routeState = "engaging"
       THEN [s1 EXCEPT !.plannedPath = <<"orbit">>]
       ELSE s3

\* the commander branch with the arrival test left out of the shift
CommandFleetMutNoArrival(ship, vis, arrived, engageRoute, patrolRoute) ==
  LET s1 == IF vis # "none" /\ ship.routeState = "patrol"
              THEN [ship EXCEPT !.plannedPath = engageRoute,
                                !.routeState = "engaging",
                                !.wp = engageRoute[1]]
              ELSE ship
      rest == Tail(s1.plannedPath)
      s2 == IF s1.plannedPath # <<>>
              THEN [s1 EXCEPT !.plannedPath = rest,
                              !.wp = IF rest # <<>> THEN rest[1] ELSE @]
              ELSE s1
      s3 == IF s2.plannedPath = <<>>
              THEN [s2 EXCEPT !.plannedPath = patrolRoute, !.wp = patrolRoute[1]]
              ELSE s2
  IN IF vis = "capitalNear" /\ s1.routeState = "engaging"
       THEN [s1 EXCEPT !.plannedPath = <<"orbit">>]
       ELSE s3

\* vis: see Sights; arrived: within 180 of (ai.wpX, ai.wpY);
\* engageRoute, patrolRoute: what the planners return when they are called
CommandFleet(ship, vis, arrived, engageRoute, patrolRoute) ==
  LET s1 == IF vis # "none" /\ ship.routeState = "patrol"
              THEN [ship EXCEPT !.plannedPath = engageRoute,
                                !.routeState = "engaging",
                                !.wp = engageRoute[1]]
              ELSE ship
      rest == Tail(s1.plannedPath)
      s2 == IF s1.plannedPath # <<>> /\ arrived
              THEN [s1 EXCEPT !.plannedPath = rest,
                              !.wp = IF rest # <<>> THEN rest[1] ELSE @]
              ELSE s1
      s3 == IF s2.plannedPath = <<>>
              THEN [s2 EXCEPT !.plannedPath = patrolRoute, !.wp = patrolRoute[1]]
              ELSE s2
      s4 == IF s3.plannedPath = <<>> /\ s3.routeState = "patrol"
              THEN [s3 EXCEPT !.plannedPath = patrolRoute, !.wp = patrolRoute[1]]
              ELSE s3
  IN IF vis = "capitalNear" /\ s1.routeState = "engaging"
       THEN [s1 EXCEPT !.plannedPath = <<"orbit">>]
       ELSE s4

-----------------------------------------------------------------------------
(* History records *)

NoCall == [team |-> "none", living |-> FALSE, prior |-> 0, leader |-> 0, changed |-> FALSE,
           routeState |-> "none", plannedPath |-> <<>>]

\* what a call pickCapitalLeader(arr) on team t found and did
CallRecord(t, arr) ==
  LET r == pickCapitalLeader(arr) IN
  [team |-> t,
   living |-> AliveIdx(arr) # {},
   prior |-> FirstOf({i \in Idx(arr) : arr[i].alive /\ arr[i].isCommander}),
   leader |-> r.leader,
   changed |-> \E i \in Idx(arr) :
                 \/ r.arr[i].isCommander # arr[i].isCommander
                 \/ r.arr[i].plannedPath # arr[i].plannedPath
                 \/ r.arr[i].routeState # arr[i].routeState,
   routeState |-> IF r.leader = 0 THEN "none" ELSE r.arr[r.leader].routeState,
   plannedPath |-> IF r.leader = 0 THEN <<>> ELSE r.arr[r.leader].plannedPath]

NoStep == [team |-> "none", ship |-> 0, d |-> 0, hasEnemy |-> FALSE,
           before |-> FALSE, after |-> FALSE, flips |-> 0]

StepRecord(t, i, ship, d, hasEnemy, dtv) ==
  [team |-> t, ship |-> i, d |-> d, hasEnemy |-> hasEnemy,
   before |-> ship.escortLocked,
   after |-> LockStep(ship, d, hasEnemy, dtv).escortLocked,
   flips |-> LockStep(ship, d, hasEnemy, dtv).flips]

\* run: accumulated time of the current unbroken run of in-radius ticks;
\* rested: the ship was exactly on its slot on every tick of that run;
\* flips: changes of escortLocked within the current frame
NoRun == [run |-> 0, rested |-> TRUE, flips |-> 0]

Observe(h, d, dtv, flips) ==
  IF d <= ESCORT_LOCK_RADIUS
    THEN [run |-> h.run + dtv, rested |-> h.rested /\ d = 0, flips |-> h.flips + flips]
    ELSE [run |-> 0, rested |-> TRUE, flips |-> h.flips + flips]

-----------------------------------------------------------------------------
(* State access *)

Arr(t) == IF t = "P" THEN player ELSE enemy

Other(t) == IF t = "P" THEN "E" ELSE "P"

SetArr(t, a) ==
  IF t = "P" THEN player' = a /\ UNCHANGED enemy
             ELSE enemy' = a /\ UNCHANGED player

CurTeam == IF idx <= Len(player) THEN "P" ELSE "E"

CurI == IF idx <= Len(player) THEN idx ELSE idx - Len(player)

CurShip == Arr(CurTeam)[CurI]

\* the ship loops of tick(): the next ship, or on to separation, shells and status
Advance ==
  IF idx = Len(player) + Len(enemy)
    THEN pc' = "combat" /\ idx' = 0
    ELSE pc' = "ai" /\ idx' = idx + 1

InLoop(t) == pc = "ai" /\ idx >= 1 /\ CurTeam = t

Frame == UNCHANGED <<started, ended, spectatorMode, gameSpeed, selected, dt, capital, bench>>

-----------------------------------------------------------------------------
(* game.js: resetWorld and the menu handlers *)

\* state.selected: the first ship of the player's class
SelectChoices(kinds) ==
  {i \in DOMAIN kinds : \A j \in DOMAIN kinds : kinds[j] = kinds[i] => i <= j}

Fleet(kinds) == [i \in DOMAIN kinds |-> mkShip(kinds[i])]

EscortsOf(kinds) == {i \in DOMAIN kinds : IsEscort(kinds[i])}

resetWorld(rosters) ==
  \E rp \in rosters :
    \E sel \in SelectChoices(rp[1]) :
      \E pOrder \in Perms(EscortsOf(rp[1])), eOrder \in Perms(EscortsOf(rp[2])) :
        /\ player' = assignEscortPositions(setFormation(Fleet(rp[1])), pOrder)
        /\ enemy' = assignEscortPositions(setFormation(Fleet(rp[2])), eOrder)
        /\ selected' = sel
        /\ ended' = FALSE
        /\ hist' = [t \in Teams |-> [i \in DOMAIN rp[IF t = "P" THEN 1 ELSE 2] |-> NoRun]]
        /\ lastCall' = NoCall
        /\ lastStep' = NoStep

StartBtn(rosters) ==
  /\ pc = "idle"
  /\ ~started
  /\ spectatorMode' = FALSE
  /\ gameSpeed' = 1
  /\ started' = TRUE
  /\ resetWorld(rosters)
  /\ UNCHANGED <<pc, idx, dt, capital, bench>>

SpectatorBtn(rosters) ==
  /\ pc = "idle"
  /\ spectatorMode' = TRUE
  /\ gameSpeed' = 1
  /\ started' = TRUE
  /\ resetWorld(rosters)
  /\ UNCHANGED <<pc, idx, dt, capital, bench>>

LeaveBtn ==
  /\ pc = "idle"
  /\ started
  /\ spectatorMode' = FALSE
  /\ started' = FALSE
  /\ ended' = FALSE
  /\ gameSpeed' = 1
  /\ lastCall' = NoCall
  /\ lastStep' = NoStep
  /\ UNCHANGED <<player, enemy, selected, pc, idx, dt, capital, hist, bench>>

SpeedBtnMutEight ==
  /\ pc = "idle"
  /\ started /\ spectatorMode
  /\ gameSpeed' = IF gameSpeed = 1 THEN 2 ELSE IF gameSpeed = 2 THEN 4
                  ELSE IF gameSpeed = 4 THEN 8 ELSE 1
  /\ lastCall' = NoCall
  /\ lastStep' = NoStep
  /\ UNCHANGED <<player, enemy, started, ended, spectatorMode, selected, pc, idx, dt, capital, hist, bench>>

SpeedBtn ==
  /\ pc = "idle"
  /\ started /\ spectatorMode
  /\ gameSpeed' = IF gameSpeed = 1 THEN 2 ELSE IF gameSpeed = 2 THEN 4 ELSE 1
  /\ lastCall' = NoCall
  /\ lastStep' = NoStep
  /\ UNCHANGED <<player, enemy, started, ended, spectatorMode, selected, pc, idx, dt, capital, hist, bench>>

restartLevel(rosters) ==
  /\ pc = "idle"
  /\ started
  /\ resetWorld(rosters)
  /\ UNCHANGED <<started, spectatorMode, gameSpeed, pc, idx, dt, capital, bench>>

\* Digit1..Digit4 and Tab
SelectShip ==
  /\ pc = "idle"
  /\ started /\ ~spectatorMode
  /\ \E j \in Idx(player) : j # selected /\ selected' = j
  /\ lastCall' = NoCall
  /\ lastStep' = NoStep
  /\ UNCHANGED <<player, enemy, started, ended, spectatorMode, gameSpeed, pc, idx, dt, capital, hist, bench>>

-----------------------------------------------------------------------------
(* combat.js: damage and sinking *)

sinkIfDead(arr, i) ==
  IF arr[i].hp > 0 \/ ~arr[i].alive THEN arr
  ELSE reassignEscortPositions([arr EXCEPT ![i].alive = FALSE, ![i].hp = 0])

\* a hit that takes the last of the hull
damageShip(arr, i) == sinkIfDead([arr EXCEPT ![i].hp = 0], i)

\* for (const s of all) { if (!s.alive) continue; s.hp -= ..; sinkIfDead(s, state) }
\* holed: the ships whose hull is gone by now (fire, flooding, ramming, grounding)
RECURSIVE StatusFrom(_, _, _)
StatusFrom(arr, i, holed) ==
  IF i > Len(arr) THEN arr
  ELSE StatusFrom(IF ~arr[i].alive THEN arr
                  ELSE IF i \in holed THEN sinkIfDead([arr EXCEPT ![i].hp = 0], i)
                  ELSE sinkIfDead(arr, i),
                  i + 1, holed)

\* statusStep sinking only the ships its own fire and flooding damage holed
RECURSIVE StatusFromHoled(_, _, _)
StatusFromHoled(arr, i, holed) ==
  IF i > Len(arr) THEN arr
  ELSE StatusFromHoled(IF arr[i].alive /\ i \in holed
                         THEN sinkIfDead([arr EXCEPT ![i].hp = 0], i)
                         ELSE arr,
                       i + 1, holed)

statusStepMutHoledOnly(arr, holed) == StatusFromHoled(arr, 1, holed)

statusStep(arr, holed) == StatusFrom(arr, 1, holed)

\* the value of state.ended after endCheck()
endCheck(wasEnded, p, e) == wasEnded \/ AliveIdx(p) = {} \/ AliveIdx(e) = {}

-----------------------------------------------------------------------------
(* game.js: tick *)

TickStart ==
  /\ pc = "idle"
  /\ started
  /\ dt' = DT_CLAMP * (IF spectatorMode /\ gameSpeed > 1 THEN gameSpeed ELSE 1)
  /\ IF ~ended
       THEN /\ player' = pickCapitalLeader(player).arr
            /\ capital' = pickCapitalLeader(player).leader
            /\ lastCall' = CallRecord("P", player)
            /\ pc' = "ai"
            /\ idx' = 1
       ELSE /\ pc' = "combat"
            /\ idx' = 0
            /\ lastCall' = NoCall
            /\ UNCHANGED <<player, capital>>
  /\ lastStep' = NoStep
  /\ UNCHANGED <<enemy, started, ended, spectatorMode, gameSpeed, selected, hist, bench>>

\* the non-commander branch: formation point, lock state machine
Follow(t, i, arr, dists) ==
  \E d \in dists, hasEnemy \in BOOLEAN :
    /\ InRadius(d) => /\ arr[i].timeInPosition + dt <= MaxTimer
                      /\ hist[t][i].run + dt <= MaxTimer
    /\ SetArr(t, [arr EXCEPT ![i] = FollowFormation(arr[i], d, hasEnemy, dt)])
    /\ lastStep' = StepRecord(t, i, arr[i], d, hasEnemy, dt)
    /\ hist' = [hist EXCEPT ![t][i] =
                  Observe(@, d, dt, LockStep(arr[i], d, hasEnemy, dt).flips)]

\* the commander branch: route planning and waypoint handling
Command(t, i, arr, sights, routes) ==
  \E vis \in sights, arrived \in BOOLEAN, engageRoute \in routes, patrolRoute \in routes :
    /\ SetArr(t, [arr EXCEPT ![i] =
                    CommandFleet(arr[i], vis, arrived, engageRoute, patrolRoute)])
    /\ lastStep' = NoStep
    /\ UNCHANGED hist

\* const leader = pickCapitalLeader(..); if (leader && leader.alive && leader !== ship) ..
LeadOrFollow(t, i, dists, sights, routes) ==
  LET r == pickCapitalLeader(Arr(t)) IN
  /\ lastCall' = CallRecord(t, Arr(t))
  /\ IF r.leader # 0 /\ r.arr[r.leader].alive /\ r.leader # i
       THEN Follow(t, i, r.arr, dists)
       ELSE Command(t, i, r.arr, sights, routes)

\* aiStep / aiStepPlayer after the alive test: return when no opponent is left
AiBody(t, i, dists, sights, routes) ==
  IF AliveIdx(Arr(Other(t))) = {}
    THEN /\ lastCall' = NoCall
         /\ lastStep' = NoStep
         /\ UNCHANGED <<player, enemy, hist>>
    ELSE LeadOrFollow(t, i, dists, sights, routes)

\* if (!s.alive) continue  /  if (!ship.alive) return
SkipSunk ==
  /\ pc = "ai"
  /\ ~CurShip.alive
  /\ Advance
  /\ lastCall' = NoCall
  /\ lastStep' = NoStep
  /\ Frame
  /\ UNCHANGED <<player, enemy, hist>>

aiStepPlayer(dists, sights, routes) ==
  /\ InLoop("P")
  /\ spectatorMode
  /\ CurShip.alive
  /\ AiBody("P", CurI, dists, sights, routes)
  /\ Advance
  /\ Frame

playerControl ==
  /\ InLoop("P")
  /\ ~spectatorMode
  /\ CurShip.alive
  /\ CurI = selected
  /\ Advance
  /\ lastCall' = NoCall
  /\ lastStep' = NoStep
  /\ Frame
  /\ UNCHANGED <<player, enemy, hist>>

\* const lead = (capital && capital.alive) ? capital : (ctrl && ctrl.alive ? ctrl : player[0])
Lead ==
  IF capital # 0 /\ player[capital].alive THEN capital
  ELSE IF selected \in Idx(player) /\ player[selected].alive THEN selected
  ELSE 1

capitalAutoPilot(dists, sights, routes) ==
  /\ InLoop("P")
  /\ ~spectatorMode
  /\ CurShip.alive
  /\ CurI # selected
  /\ player[Lead].alive
  /\ CurI = Lead
  /\ LeadOrFollow("P", CurI, dists, sights, routes)
  /\ Advance
  /\ Frame

\* the else branch of the player loop: steerToPoint towards formationPoint(lead, s)
FormationFollow ==
  /\ InLoop("P")
  /\ ~spectatorMode
  /\ CurShip.alive
  /\ CurI # selected
  /\ CurI # Lead
  /\ Advance
  /\ lastCall' = NoCall
  /\ lastStep' = NoStep
  /\ Frame
  /\ UNCHANGED <<player, enemy, hist>>

aiStep(dists, sights, routes) ==
  /\ InLoop("E")
  /\ CurShip.alive
  /\ AiBody("E", CurI, dists, sights, routes)
  /\ Advance
  /\ Frame

\* shellsStep / missilesStep: damageShip on a ship in the blast
DamageShip ==
  /\ pc = "combat"
  /\ \E t \in Teams : \E i \in AliveIdx(Arr(t)) : SetArr(t, damageShip(Arr(t), i))
  /\ lastCall' = NoCall
  /\ lastStep' = NoStep
  /\ Frame
  /\ UNCHANGED <<pc, idx, hist>>

\* statusStep, then endCheck in a running battle; updateUI and draw follow
TickEnd ==
  /\ pc = "combat"
  /\ \E hp \in SUBSET AliveIdx(player), he \in SUBSET AliveIdx(enemy) :
       /\ player' = statusStep(player, hp)
       /\ enemy' = statusStep(enemy, he)
       /\ ended' = endCheck(ended, statusStep(player, hp), statusStep(enemy, he))
  /\ pc' = "idle"
  /\ idx' = 0
  /\ dt' = 0
  /\ capital' = 0
  /\ lastCall' = NoCall
  /\ lastStep' = NoStep
  /\ hist' = [t \in Teams |-> [i \in DOMAIN hist[t] |-> [hist[t][i] EXCEPT !.flips = 0]]]
  /\ UNCHANGED <<started, spectatorMode, gameSpeed, selected, bench>>

-----------------------------------------------------------------------------
(* Specifications *)

\* nothing is on the bench while a battle is modelled
NoBench == [on |-> "none"]

Init ==
  /\ player = <<>>
  /\ enemy = <<>>
  /\ started = FALSE
  /\ ended = FALSE
  /\ spectatorMode = FALSE
  /\ gameSpeed = 1
  /\ selected = 1
  /\ pc = "idle"
  /\ idx = 0
  /\ dt = 0
  /\ capital = 0
  /\ lastCall = NoCall
  /\ lastStep = NoStep
  /\ hist = [t \in Teams |-> <<>>]
  /\ bench = NoBench

NextOf(rosters, dists, sights, routes) ==
  \/ StartBtn(rosters)
  \/ SpectatorBtn(rosters)
  \/ LeaveBtn
  \/ SpeedBtn
  \/ restartLevel(rosters)
  \/ SelectShip
  \/ TickStart
  \/ SkipSunk
  \/ aiStepPlayer(dists, sights, routes)
  \/ playerControl
  \/ capitalAutoPilot(dists, sights, routes)
  \/ FormationFollow
  \/ aiStep(dists, sights, routes)
  \/ DamageShip
  \/ TickEnd

\* elections and the frame loop: full fleets that never close up
Next == NextOf(Rosters, DistFar, Sights, Routes)

Spec == Init /\ [][Next]_vars

\* the lock state machine: one escort per battle, followed past the dwell time
NextLock == NextOf(RostersLock, DistChoices, SightsLock, Routes)

SpecLock == Init /\ [][NextLock]_vars

\* pickCapitalLeader on its own: any fleet with at most one flag, then calls and sinkings
UnderWay(ship) ==
  [ship EXCEPT !.plannedPath = <<"a">>, !.routeState = "engaging", !.wp = "a"]

FleetsOf(kinds) ==
  {[i \in DOMAIN kinds |->
      LET s0 == [mkShip(kinds[i]) EXCEPT !.alive = (i \in living),
                                         !.hp = IF i \in living THEN 1 ELSE 0,
                                         !.isCommander = (i = flag)]
      IN IF i \in moving THEN UnderWay(s0) ELSE s0] :
     living \in SUBSET DOMAIN kinds, flag \in {0} \cup DOMAIN kinds,
     moving \in SUBSET DOMAIN kinds}

FleetsPick == UNION {FleetsOf(kinds) : kinds \in RostersPick}

InitPick ==
  /\ player \in FleetsPick
  /\ enemy = <<>>
  /\ started = FALSE
  /\ ended = FALSE
  /\ spectatorMode = FALSE
  /\ gameSpeed = 1
  /\ selected = 1
  /\ pc = "idle"
  /\ idx = 0
  /\ dt = 0
  /\ capital = 0
  /\ lastCall = NoCall
  /\ lastStep = NoStep
  /\ hist = [t \in Teams |-> <<>>]
  /\ bench = NoBench

PickCall ==
  /\ player' = pickCapitalLeader(player).arr
  /\ lastCall' = CallRecord("P", player)
  /\ UNCHANGED <<enemy, started, ended, spectatorMode, gameSpeed, selected,
                 pc, idx, dt, capital, lastStep, hist, bench>>

PickSink ==
  /\ \E i \in AliveIdx(player) : player' = damageShip(player, i)
  /\ lastCall' = NoCall
  /\ UNCHANGED <<enemy, started, ended, spectatorMode, gameSpeed, selected,
                 pc, idx, dt, capital, lastStep, hist, bench>>

NextPick == PickCall \/ PickSink

SpecPick == InitPick /\ [][NextPick]_vars

-----------------------------------------------------------------------------
(* Properties *)

Flagged(arr) == {i \in Idx(arr) : arr[i].isCommander}

\* the class order the election is required to follow: BB, then CV, then DD, then TB
ClassRank(k) == CASE k = "BB" -> 1 [] k = "CV" -> 2 [] k = "DD" -> 3 [] k = "TB" -> 4

Called == lastCall.team \in Teams

Elected == Called /\ lastCall.living /\ lastCall.prior = 0

Stepped == lastStep.team \in Teams

UnlockRadius == ESCORT_LOCK_RADIUS * UNLOCK_FACTOR

\* C1: after a call of pickCapitalLeader on a team with a living ship, exactly one
\* ship of that team carries the commander flag.
C1_ExactlyOneFlag ==
  Called /\ lastCall.living => Cardinality(Flagged(Arr(lastCall.team))) = 1

\* an election after the commander sank: the sunk ship's flag is gone, one flag is left
C1_Witness ==
  /\ Elected
  /\ \E i \in Idx(Arr(lastCall.team)) : ~Arr(lastCall.team)[i].alive
  /\ Flagged(Arr(lastCall.team)) = {lastCall.leader}

\* C2: at every tick boundary of a running battle, each team that has a living ship
\* has a living ship carrying the commander flag.
C2_LedAtTickBoundary ==
  pc = "idle" /\ started /\ ~ended =>
    \A t \in Teams : AliveIdx(Arr(t)) # {} =>
      \E i \in AliveIdx(Arr(t)) : Arr(t)[i].isCommander

\* C3: when the commander has died and pickCapitalLeader runs, the ship it elects
\* belongs to the highest-priority class (BB, CV, DD, TB) that has a living ship.
C3_ElectsTopClass ==
  Elected =>
    /\ lastCall.leader \in AliveIdx(Arr(lastCall.team))
    /\ \A i \in AliveIdx(Arr(lastCall.team)) :
         ClassRank(Arr(lastCall.team)[lastCall.leader].kind)
           <= ClassRank(Arr(lastCall.team)[i].kind)

\* a battleship elected over a living carrier that stands earlier in the array
C3_Witness ==
  /\ Elected
  /\ Arr(lastCall.team)[lastCall.leader].kind = "BB"
  /\ \E i \in AliveIdx(Arr(lastCall.team)) :
       i < lastCall.leader /\ Arr(lastCall.team)[i].kind = "CV"

\* C4: if a living ship already carries the flag, pickCapitalLeader returns it and
\* changes no ship's flag, planned route or route state, on every call and even
\* when a living ship of a higher-priority class exists.
C4_KeepsCommander ==
  Called /\ lastCall.prior # 0 => lastCall.leader = lastCall.prior /\ ~lastCall.changed

\* a flagged living ship is kept although a living ship of a higher class exists
C4_Witness ==
  /\ Called
  /\ lastCall.prior # 0
  /\ lastCall.leader = lastCall.prior
  /\ player[lastCall.leader].plannedPath # <<>>
  /\ \E i \in AliveIdx(player) :
       ClassRank(player[i].kind) < ClassRank(player[lastCall.leader].kind)

\* C5: whenever pickCapitalLeader elects a new commander, immediately after the call
\* the elected ship's route state is 'patrol' and its planned route is empty.
C5_ElectedStartsOnPatrol ==
  Elected => lastCall.routeState = "patrol" /\ lastCall.plannedPath = <<>>

\* an election in a fleet where a ship was under way on a route
C5_Witness ==
  /\ Elected
  /\ lastCall.leader # 0
  /\ player[lastCall.leader].routeState = "patrol"
  /\ \E i \in Idx(player) : player[i].routeState = "engaging"

ArrNext(t) == IF t = "P" THEN player' ELSE enemy'

\* resetWorld is the only handler between frames that writes the fleets: it replaces
\* every ship by a new one
ShipsReplaced == pc = "idle" /\ pc' = "idle"

SteppedRun == hist[lastStep.team][lastStep.ship]

C9_OneChangePerTick ==
  \A t \in Teams : \A i \in DOMAIN hist[t] : hist[t][i].flips <= 1

\* the frame's ship loops are over and an escort changed state in them
C9_Witness ==
  /\ pc = "combat"
  /\ \E t \in Teams : \E i \in DOMAIN hist[t] : hist[t][i].flips = 1

-----------------------------------------------------------------------------
(* The helm: rudder, throttle and speed of one ship.                        *)
(* Angles are in tenths of a milliradian, times in milliseconds, so that    *)
(* the rates of the source (tenths of a radian per second) are whole        *)
(* numbers per millisecond.                                                 *)

\* Math.PI / 6 = 0.5236 rad
MAX_RUDDER_ANGLE == 5236

\* 0.3 rad/s and 0.2 rad/s
RUDDER_RETURN_RATE == 3

RUDDER_MOVE_RATE == 2

Abs(v) == IF v < 0 THEN -v ELSE v

Sign(v) == IF v > 0 THEN 1 ELSE IF v < 0 THEN -1 ELSE 0

\* a product with a decimal factor num/den, rounded towards zero
Scale(v, num, den) == Sign(v) * ((Abs(v) * num) \div den)

clampMutNone(v, lo, hi) == v

\* utils.js: Math.max(lo, Math.min(hi, v))
clamp(v, lo, hi) ==
  LET m == IF hi < v THEN hi ELSE v
  IN IF lo > m THEN lo ELSE m

\* ai.js applyRudder: the rudder it leaves; angularVel and heading are computed
\* from the rudder afterwards and are never read back into it
applyRudder(rudderAngle, desiredTurn, dtv) ==
  LET targetRudder == clamp(desiredTurn, -MAX_RUDDER_ANGLE, MAX_RUDDER_ANGLE)
      diff == targetRudder - rudderAngle
      maxChange == 3 * dtv
      returnSpeed == 2 * dtv
      moved == IF Abs(diff) > 100
                 THEN rudderAngle + clamp(diff, -maxChange, maxChange)
               ELSE IF Abs(targetRudder) < 200
                 THEN IF Abs(rudderAngle) < returnSpeed THEN 0
                      ELSE rudderAngle - Sign(rudderAngle) * returnSpeed
               ELSE rudderAngle
  IN clamp(moved, -MAX_RUDDER_ANGLE, MAX_RUDDER_ANGLE)

\* input.js applyPlayerRudder: steerInput is -1, 0 or 1 (KeyA, none or both, KeyD)
applyPlayerRudder(rudderAngle, steerInput, dtv) ==
  LET returnSpeed == RUDDER_RETURN_RATE * dtv
      moved == IF steerInput # 0
                 THEN rudderAngle + steerInput * RUDDER_MOVE_RATE * dtv
               ELSE IF Abs(rudderAngle) < returnSpeed THEN 0
               ELSE rudderAngle - Sign(rudderAngle) * returnSpeed
  IN clamp(moved, -MAX_RUDDER_ANGLE, MAX_RUDDER_ANGLE)

\* the locked escort with nothing to avoid: ship.rudderAngle = (ship.rudderAngle || 0) * 0.95
lockedRudder(rudderAngle) == Scale(rudderAngle, 95, 100)

\* frame times: a short frame, a full frame, and full frames at game speed 2 and 4
FrameTimes == {DT_CLAMP \div 2, DT_CLAMP, DT_CLAMP * 2, DT_CLAMP * 4}

\* rudder orders of the AI: beyond either stop, small, none
TurnChoices ==
  {-2 * MAX_RUDDER_ANGLE, -MAX_RUDDER_ANGLE \div 4, -150, 0, 150,
   MAX_RUDDER_ANGLE \div 4, 2 * MAX_RUDDER_ANGLE}

\* no battle is started while a ship is on the bench
NoBattle ==
  /\ player = <<>>
  /\ enemy = <<>>
  /\ started = FALSE
  /\ ended = FALSE
  /\ spectatorMode = FALSE
  /\ gameSpeed = 1
  /\ selected = 1
  /\ pc = "idle"
  /\ idx = 0
  /\ dt = 0
  /\ capital = 0
  /\ lastCall = NoCall
  /\ lastStep = NoStep
  /\ hist = [t \in Teams |-> <<>>]

InitRudder ==
  /\ NoBattle
  /\ bench = [on |-> "rudder", rudderAngle |-> 0, by |-> "mkShip"]

BenchOnly == UNCHANGED <<player, enemy, started, ended, spectatorMode, gameSpeed, selected,
                         pc, idx, dt, capital, lastCall, lastStep, hist>>

AiRudder ==
  /\ \E desiredTurn \in TurnChoices, dtv \in FrameTimes :
       bench' = [bench EXCEPT !.rudderAngle = applyRudder(@, desiredTurn, dtv), !.by = "ai"]
  /\ BenchOnly

PlayerRudder ==
  /\ \E steerInput \in {-1, 0, 1}, dtv \in {DT_CLAMP \div 2, DT_CLAMP} :
       bench' = [bench EXCEPT !.rudderAngle = applyPlayerRudder(@, steerInput, dtv),
                              !.by = "player"]
  /\ BenchOnly

LockedRudder ==
  /\ bench' = [bench EXCEPT !.rudderAngle = lockedRudder(@), !.by = "locked"]
  /\ BenchOnly

NextRudder == AiRudder \/ PlayerRudder \/ LockedRudder

SpecRudder == InitRudder /\ [][NextRudder]_vars

\* C11: whoever moved the rudder last (AI rudder, player rudder, locked escort),
\* its angle is within MAX_RUDDER_ANGLE of midships
C11_RudderWithinStops ==
  bench.on = "rudder" => Abs(bench.rudderAngle) <= MAX_RUDDER_ANGLE

\* the rudder is hard over after a player's order
C11_Witness ==
  /\ bench.on = "rudder"
  /\ bench.by = "player"
  /\ Abs(bench.rudderAngle) = MAX_RUDDER_ANGLE

-----------------------------------------------------------------------------
(* Throttle, in thousandths of a percent: 45 percent per second is 45 per   *)
(* millisecond.                                                             *)

THROTTLE_CHANGE_RATE == 45

FullThrottle == 100 * 1000

\* mkShip: throttle: 50
HalfThrottle == 50 * 1000

\* input.js updateThrottle: KeyW raises, KeyS lowers; both keys may be down.
\* The throttle is a number from mkShip on, so the NaN branch never applies.
updateThrottle(throttle, keyW, keyS, dtv) ==
  LET raised == IF keyW
                  THEN (IF FullThrottle < throttle + THROTTLE_CHANGE_RATE * dtv
                          THEN FullThrottle ELSE throttle + THROTTLE_CHANGE_RATE * dtv)
                  ELSE throttle
  IN IF keyS
       THEN (IF -FullThrottle > raised - THROTTLE_CHANGE_RATE * dtv
               THEN -FullThrottle ELSE raised - THROTTLE_CHANGE_RATE * dtv)
       ELSE raised

\* the step taken whole, without the snap to the target or the clamp
updateAIThrottleMutOvershoot(throttle, targetThrottle, dtv) ==
  throttle + Sign(targetThrottle - throttle) * THROTTLE_CHANGE_RATE * dtv

\* ai.js updateAIThrottle
updateAIThrottle(throttle, targetThrottle, dtv) ==
  LET throttleDiff == targetThrottle - throttle
      maxChange == THROTTLE_CHANGE_RATE * dtv
      moved == IF Abs(throttleDiff) <= maxChange THEN targetThrottle
               ELSE throttle + Sign(throttleDiff) * maxChange
  IN clamp(moved, 0, FullThrottle)

\* the locked escort: ship.throttle = clamp((leaderSpeed / ship.kind.maxSpeed) * 100, 0, 100)
lockedThrottle(leaderSpeed, ownMaxSpeed) ==
  clamp((leaderSpeed * FullThrottle) \div ownMaxSpeed, 0, FullThrottle)

\* calculateAITargetThrottle's values, one interpolated catch-up value, and
\* fp.throttle || lead.throttle || 50 with a lead the player has put astern
ThrottleTargets ==
  {50 * 1000, 60 * 1000, 70 * 1000, 75 * 1000, 85 * 1000, 100 * 1000,
   87 * 1000 + 500, -30 * 1000}

\* speeds in hundredths of a pixel per second
SHIP_SPEED_SCALE == 28

maxSpeed(kind) ==
  CASE kind = "DD" -> 115 * SHIP_SPEED_SCALE
    [] kind = "BB" -> 65 * SHIP_SPEED_SCALE
    [] kind = "TB" -> 130 * SHIP_SPEED_SCALE
    [] kind = "CV" -> 58 * SHIP_SPEED_SCALE

InitThrottle ==
  /\ NoBattle
  /\ bench = [on |-> "throttle", throttle |-> HalfThrottle, by |-> "mkShip"]

PlayerThrottle ==
  /\ \E keyW \in BOOLEAN, keyS \in BOOLEAN, dtv \in {DT_CLAMP \div 2, DT_CLAMP} :
       bench' = [bench EXCEPT !.throttle = updateThrottle(@, keyW, keyS, dtv),
                              !.by = "player"]
  /\ BenchOnly

AiThrottle ==
  /\ \E targetThrottle \in ThrottleTargets, dtv \in FrameTimes :
       bench' = [bench EXCEPT !.throttle = updateAIThrottle(@, targetThrottle, dtv),
                              !.by = "ai"]
  /\ BenchOnly

\* a locked BB whose leader is stopped, slower than it, or faster than it
LockedThrottle ==
  /\ \E leaderSpeed \in {0, maxSpeed("CV"), maxSpeed("DD")} :
       bench' = [bench EXCEPT !.throttle = lockedThrottle(leaderSpeed, maxSpeed("BB")),
                              !.by = "locked"]
  /\ BenchOnly

NextThrottle == PlayerThrottle \/ AiThrottle \/ LockedThrottle

SpecThrottle == InitThrottle /\ [][NextThrottle]_vars

\* C12: after every throttle update, by the player's keys or by the AI, the
\* throttle lies in [0, 100]
C12_ThrottleInRange ==
  bench.on = "throttle" => (0 <= bench.throttle /\ bench.throttle <= FullThrottle)

-----------------------------------------------------------------------------
(* Speed: velocities in tenths of a pixel per second, a course as the pair  *)
(* <<cos, sin>> of the heading in thousandths.                              *)

\* per ten thousand
DRAG_DD == 9960

DRAG_BB == 9970

\* per hundred
SPEED_INERTIA == 92

REVERSE_SPEED_MULT == 50

SHIP_ACCEL_SCALE == 28

\* the capital classes on the bench: 18.2 and 16.2 pixels per second
topSpeed(kind) == maxSpeed(kind) \div 10

\* kind.accel in hundredths of a pixel per second squared
accel(kind) ==
  CASE kind = "DD" -> 70 * SHIP_ACCEL_SCALE
    [] kind = "BB" -> 34 * SHIP_ACCEL_SCALE
    [] kind = "TB" -> 90 * SHIP_ACCEL_SCALE
    [] kind = "CV" -> 28 * SHIP_ACCEL_SCALE

\* headings whose cosine and sine are exact in thousandths
Courses == {<<1000, 0>>, <<0, 1000>>, <<-600, 800>>, <<-800, -600>>, <<600, -800>>}

RECURSIVE IsqrtIn(_, _, _)
IsqrtIn(n, lo, hi) ==
  IF lo >= hi THEN lo
  ELSE LET mid == (lo + hi + 1) \div 2
       IN IF mid * mid <= n THEN IsqrtIn(n, mid, hi) ELSE IsqrtIn(n, lo, mid - 1)

\* the whole part of Math.sqrt(n)
Isqrt(n) == IsqrtIn(n, 0, IF n < 46340 THEN n ELSE 46340)

\* the whole part of Math.hypot(x, y)
Hypot(x, y) == Isqrt(x * x + y * y)

\* v * Math.pow(drag, n) for a whole number n of 60 Hz frames
RECURSIVE Dragged(_, _, _)
Dragged(v, drag, n) == IF n = 0 THEN v ELSE Dragged(Scale(v, drag, 10000), drag, n - 1)

\* dt * 60 to the nearest whole frame
dragFrames(dtv) == (dtv * 60 + 500) \div 1000

\* v * (top / Math.hypot(vx, vy)), rounded towards zero; s is vx * vx + vy * vy
limitSpeedMutKeep(v, top, s) == v

limitSpeed(v, top, s) == Sign(v) * Isqrt(((Abs(v) * top) * (Abs(v) * top)) \div s)

\* game.js physicsStep up to the drag: currentSpeed follows the throttle, the
\* velocity follows currentSpeed along the heading
driven(ship, course, dtv) ==
  LET drag == IF ship.kind = "BB" THEN DRAG_BB ELSE DRAG_DD
      throttleAbs == Abs(ship.throttle)
      isReverse == ship.throttle < 0
      top == IF isReverse THEN Scale(topSpeed(ship.kind), REVERSE_SPEED_MULT, 100)
             ELSE topSpeed(ship.kind)
      targetSpeed == Scale(throttleAbs * top, 1, 100)
      currentSpeed == Scale(ship.currentSpeed, SPEED_INERTIA, 100)
                        + Scale(targetSpeed, 100 - SPEED_INERTIA, 100)
      direction == IF isReverse THEN -1 ELSE 1
      targetVx == Scale(course[1] * currentSpeed * direction, 1, 1000)
      targetVy == Scale(course[2] * currentSpeed * direction, 1, 1000)
  IN [ship EXCEPT
        !.currentSpeed = currentSpeed,
        !.vx = Dragged(Scale(ship.vx, 9, 10) + Scale(targetVx, 1, 10), drag, dragFrames(dtv)),
        !.vy = Dragged(Scale(ship.vy, 9, 10) + Scale(targetVy, 1, 10), drag, dragFrames(dtv))]

\* if (sp > ship.kind.maxSpeed)
overSpeed(ship) ==
  ship.vx * ship.vx + ship.vy * ship.vy > topSpeed(ship.kind) * topSpeed(ship.kind)

\* game.js physicsStep: velocity and currentSpeed; the position, which
\* resolveShipLand and withinWorld correct afterwards, is not kept here
physicsStep(ship, course, dtv) ==
  LET drag == IF ship.kind = "BB" THEN DRAG_BB ELSE DRAG_DD
      d == driven(ship, course, dtv)
      s == d.vx * d.vx + d.vy * d.vy
  IN IF ~ship.alive
       THEN [ship EXCEPT !.vx = Scale(@, drag, 10000), !.vy = Scale(@, drag, 10000)]
     ELSE IF overSpeed(d)
       THEN [d EXCEPT !.vx = limitSpeed(@, topSpeed(ship.kind), s),
                      !.vy = limitSpeed(@, topSpeed(ship.kind), s)]
     ELSE d

\* capitalAutoPilot, locked branch: speed drawn towards the leader's along the
\* ship's heading, plus the correction towards the slot when dForm > 5
lockedVelocityMutSnap(ship, course, leaderSpeed, toTarget, dForm, dtv) ==
  LET strength == IF Scale(dForm * 8, 1, 100) < 3 THEN Scale(dForm * 8, 1, 100) ELSE 3
      cx == IF dForm > 5 THEN Scale(toTarget[1] * strength, 1, 1000) ELSE 0
      cy == IF dForm > 5 THEN Scale(toTarget[2] * strength, 1, 1000) ELSE 0
  IN [ship EXCEPT !.vx = Scale(course[1] * leaderSpeed, 1, 1000) + cx,
                  !.vy = Scale(course[2] * leaderSpeed, 1, 1000) + cy]

lockedVelocity(ship, course, leaderSpeed, toTarget, dForm, dtv) ==
  LET mySpeed == Hypot(ship.vx, ship.vy)
      newSpeed == mySpeed + Scale((leaderSpeed - mySpeed) * 12 * dtv, 1, 10000)
      strength == IF Scale(dForm * 8, 1, 100) < 3 THEN Scale(dForm * 8, 1, 100) ELSE 3
      cx == IF dForm > 5 THEN Scale(toTarget[1] * strength, 1, 1000) ELSE 0
      cy == IF dForm > 5 THEN Scale(toTarget[2] * strength, 1, 1000) ELSE 0
  IN [ship EXCEPT !.vx = Scale(course[1] * newSpeed, 1, 1000) + cx,
                  !.vy = Scale(course[2] * newSpeed, 1, 1000) + cy]

\* steerToPoint, the last lines: accelerate along the heading towards speedMax
steerVelocity(ship, course, want, dtv) ==
  LET sp == Hypot(ship.vx, ship.vy)
      a == IF sp < want THEN accel(ship.kind) * 8 ELSE -(accel(ship.kind) * 5)
  IN [ship EXCEPT !.vx = @ + Scale(course[1] * a * dtv, 1, 100000000),
                  !.vy = @ + Scale(course[2] * a * dtv, 1, 100000000)]

\* a ship between two ticks: under way on some course at rest, half or top speed
ShipsUnderWay ==
  {[on |-> "physics", kind |-> k, alive |-> al, throttle |-> th,
    vx |-> Scale(c[1] * ((topSpeed(k) * f) \div 2), 1, 1000),
    vy |-> Scale(c[2] * ((topSpeed(k) * f) \div 2), 1, 1000),
    currentSpeed |-> (topSpeed(k) * g) \div 2, by |-> "tick", cut |-> FALSE] :
     k \in {"BB", "CV"}, al \in BOOLEAN, th \in {-100, 0, 50, 100},
     c \in Courses, f \in 0..2, g \in 0..2}

InitPhysics ==
  /\ NoBattle
  /\ bench \in ShipsUnderWay

LockedVelocity ==
  /\ bench.by = "tick" /\ bench.alive
  /\ \E course \in Courses, toTarget \in Courses, dtv \in FrameTimes,
        leaderSpeed \in {0, topSpeed("BB")}, dForm \in {0, 20, 60} :
       bench' = [lockedVelocity(bench, course, leaderSpeed, toTarget, dForm, dtv)
                   EXCEPT !.by = "ai"]
  /\ BenchOnly

SteerVelocity ==
  /\ bench.by = "tick" /\ bench.alive
  /\ \E course \in Courses, dtv \in FrameTimes :
       bench' = [steerVelocity(bench, course, topSpeed(bench.kind), dtv) EXCEPT !.by = "ai"]
  /\ BenchOnly

\* for (const s of state.player) physicsStep(s, dt): the living after their AI
\* step, the sunk without one
PhysicsStep ==
  /\ bench.by = (IF bench.alive THEN "ai" ELSE "tick")
  /\ \E course \in Courses, dtv \in FrameTimes :
       bench' = [physicsStep(bench, course, dtv) EXCEPT
                   !.by = "physics",
                   !.cut = bench.alive /\ overSpeed(driven(bench, course, dtv))]
  /\ BenchOnly

NextPhysics == LockedVelocity \/ SteerVelocity \/ PhysicsStep

SpecPhysics == InitPhysics /\ [][NextPhysics]_vars

\* C13: after physicsStep the length of the ship's velocity vector is at most
\* its class's top speed
C13_SpeedWithinClassMax ==
  (bench.on = "physics" /\ bench.by = "physics")
    => bench.vx * bench.vx + bench.vy * bench.vy
         <= topSpeed(bench.kind) * topSpeed(bench.kind)

\* the AI step had taken a living ship past its top speed and physicsStep has
\* cut it back
C13_Witness ==
  /\ bench.on = "physics" /\ bench.by = "physics" /\ bench.alive
  /\ bench.cut
  /\ Hypot(bench.vx, bench.vy) >= topSpeed(bench.kind) - 2

-----------------------------------------------------------------------------
(* Collision prediction and avoidance between two ships of one team.        *)
(* Positions in pixels, velocities in pixels per second (multiples of ten,  *)
(* so that positions at tenths of a second are whole), times in tenths of a *)
(* second, bearings and headings in eighths of a turn, steering in tenths   *)
(* of a milliradian, urgency in thousandths.                                *)

radius(kind) ==
  CASE kind = "DD" -> 14
    [] kind = "BB" -> 22
    [] kind = "TB" -> 12
    [] kind = "CV" -> 26

\* utils.js normAngle, for angles counted with tau units to the turn:
\* a %= TAU keeps the sign of a; then one turn is added or taken off
normAngle(a, tau) ==
  LET r == Sign(a) * (Abs(a) % tau)
  IN IF 2 * r < -tau THEN r + tau
     ELSE IF 2 * r > tau THEN r - tau
     ELSE r

\* Math.atan2(dy, dx) in eighths of a turn, for a vector along a compass line
\* (dx = 0, dy = 0 or |dx| = |dy|); dy = 0 is +0 here
atan2(dy, dx) ==
  IF dy = 0 THEN (IF dx < 0 THEN 4 ELSE 0)
  ELSE IF dy > 0 THEN (IF dx > 0 THEN 1 ELSE IF dx = 0 THEN 2 ELSE 3)
  ELSE (IF dx > 0 THEN -1 ELSE IF dx = 0 THEN -2 ELSE -3)

\* Math.atan2(-dy, -dx): for dy = 0 the first argument is -0, and atan2(-0, x)
\* is -pi for x < 0
atan2Back(dy, dx) ==
  IF dy = 0 THEN (IF -dx < 0 THEN -4 ELSE 0) ELSE atan2(-dy, -dx)

\* squared distance between the two ships t tenths of a second from now
futureDist2(ship, other, t) ==
  LET fx == (other.x + (other.vx \div 10) * t) - (ship.x + (ship.vx \div 10) * t)
      fy == (other.y + (other.vy \div 10) * t) - (ship.y + (ship.vy \div 10) * t)
  IN fx * fx + fy * fy

\* the scan with minTime left where it was
RECURSIVE closestFromMutNoTime(_, _, _, _, _, _)
closestFromMutNoTime(ship, other, t, step, last, best) ==
  IF t > last THEN best
  ELSE closestFromMutNoTime(ship, other, t + step, step, last,
                            IF futureDist2(ship, other, t) < best.d2
                              THEN [d2 |-> futureDist2(ship, other, t), t |-> best.t]
                              ELSE best)

\* for (let t = step; t <= last; t += step) if (futureDist < minDist) ..
RECURSIVE closestFrom(_, _, _, _, _, _)
closestFrom(ship, other, t, step, last, best) ==
  IF t > last THEN best
  ELSE closestFrom(ship, other, t + step, step, last,
                   IF futureDist2(ship, other, t) < best.d2
                     THEN [d2 |-> futureDist2(ship, other, t), t |-> t]
                     ELSE best)

NoCollision == [willCollide |-> FALSE, urgency |-> 0, timeToCollision |-> 0]

\* ai.js predictCollision with lookAhead = 6.0; null is NoCollision
predictCollision(ship, other) ==
  LET dx == other.x - ship.x
      dy == other.y - ship.y
      cur2 == dx * dx + dy * dy
      collisionDist == radius(ship.kind) + radius(other.kind) + 40
      stepped == closestFrom(ship, other, 5, 5, 60, [d2 |-> cur2, t |-> 0])
      relVx == ship.vx - other.vx
      relVy == ship.vy - other.vy
      rel2 == relVx * relVx + relVy * relVy
      \* tcpa = -(dx * relVx + dy * relVy) / relSpeed^2 = closing / rel2 seconds,
      \* with dx, dy from ship to other and relV the ship's velocity less the
      \* other's; the distance between the two at that time, squared, is
      \* cur2 + 3 * closing^2 / rel2
      closing == -(dx * relVx + dy * relVy)
      cpaValid == rel2 > 0 /\ closing > 0 /\ closing < 6 * rel2
      cpaCloser == cpaValid /\ cur2 * rel2 + 3 * closing * closing < stepped.d2 * rel2
      near == IF cpaCloser
                THEN cur2 * rel2 + 3 * closing * closing
                       < (collisionDist + 60) * (collisionDist + 60) * rel2
                ELSE stepped.d2 < (collisionDist + 60) * (collisionDist + 60)
      late == IF cpaCloser THEN (1000 * closing) \div (6 * rel2)
              ELSE (1000 * stepped.t) \div 60
  IN IF ~ship.alive \/ ~other.alive THEN NoCollision
     ELSE IF cur2 < (collisionDist + 30) * (collisionDist + 30)
       THEN [willCollide |-> TRUE, urgency |-> 1000, timeToCollision |-> 0]
     ELSE IF near
       THEN [willCollide |-> TRUE, urgency |-> clamp(1000 - late, 200, 1000),
             timeToCollision |-> IF cpaCloser THEN (10 * closing) \div rel2 ELSE stepped.t]
     ELSE NoCollision

\* ship.escortPosition ?? 0
slotIndex(ship) == IF ship.escortPosition = 0 THEN 0 ELSE ship.escortPosition - 1

NoThreat == [danger |-> FALSE, side |-> "none", steerDir |-> 0, urgency |-> 0]

\* the body of calculateAvoidanceSteering's loop for one other ship of the team
threat(ship, other) ==
  LET dx == other.x - ship.x
      dy == other.y - ship.y
      cur2 == dx * dx + dy * dy
      collisionDist == radius(ship.kind) + radius(other.kind) + 25
      stepped == closestFrom(ship, other, 3, 3, 30, [d2 |-> cur2, t |-> 0])
      dangerouslyClose == cur2 < (collisionDist + 40) * (collisionDist + 40)
      willCollide == stepped.d2 < (collisionDist + 30) * (collisionDist + 30)
      \* clamp(1 - ((Math.min(dist, minFutureDist) - collisionDist) / 50), 0.3, 1.0)
      urgency == clamp(1000 - 2 * (Isqrt(100 * stepped.d2) - 10 * collisionDist), 300, 1000)
      relAngle == normAngle(atan2(dy, dx) - ship.heading, 8)
      otherInFront == Abs(relAngle) < 2
      otherRelAngle == normAngle(atan2Back(dy, dx) - other.heading, 8)
      weAreInFrontOfOther == Abs(otherRelAngle) < 2
      \* Math.sin(..) > 0; Math.sin(Math.PI) is a small positive number
      otherMovingRight == normAngle(other.heading - ship.heading, 8) \in 1..4
      away == IF relAngle > 0 THEN -1 ELSE 1
  IN IF ~other.alive \/ cur2 > 200 * 200 \/ (~dangerouslyClose /\ ~willCollide)
       THEN NoThreat
     ELSE IF otherInFront /\ ~weAreInFrontOfOther
       THEN [danger |-> TRUE, side |-> "behind", urgency |-> urgency,
             steerDir |-> IF otherMovingRight THEN -1 ELSE 1]
     ELSE IF ~otherInFront /\ weAreInFrontOfOther
       THEN [danger |-> TRUE, side |-> "ahead", urgency |-> urgency, steerDir |-> away]
     ELSE [danger |-> TRUE, side |-> "beside", urgency |-> urgency,
           steerDir |-> IF slotIndex(ship) # slotIndex(other)
                          THEN (IF slotIndex(ship) < slotIndex(other) THEN 1 ELSE -1)
                          ELSE away]

\* totalSteer += steerDir * steerStrength * urgency, over the other ships
RECURSIVE totalSteer(_, _, _)
totalSteer(allShips, me, j) ==
  IF j > Len(allShips) THEN 0
  ELSE (IF j = me THEN 0
        ELSE LET th == threat(allShips[me], allShips[j])
             IN Scale(th.steerDir * 3500 * th.urgency, 1, 1000))
       + totalSteer(allShips, me, j + 1)

\* ai.js calculateAvoidanceSteering: the steer of its result
calculateAvoidanceSteering(allShips, me) == clamp(totalSteer(allShips, me, 1), -5500, 5500)

\* the other ship's bearing from the first: a compass direction
Bearings == {<<1, 0>>, <<1, 1>>, <<0, 1>>, <<-1, 1>>, <<-1, 0>>, <<-1, -1>>, <<0, -1>>, <<1, -1>>}

\* the speed vector of a ship making v along a quarter-turn heading
along(heading, v) ==
  CASE heading = 0 -> <<v, 0>>
    [] heading = 2 -> <<0, v>>
    [] heading = 4 -> <<-v, 0>>
    [] heading = -2 -> <<0, -v>>

afloat(kind, slot, x, y, heading, v) ==
  [kind |-> kind, alive |-> TRUE, escortPosition |-> slot, x |-> x, y |-> y,
   heading |-> heading, vx |-> along(heading, v)[1], vy |-> along(heading, v)[2]]

\* two ships of one team: a battleship at the origin and a second ship, of any
\* class and slot, on a compass bearing from it
Pairs ==
  {<<afloat("BB", 0, 0, 0, h1, 10), afloat(k2[1], k2[2], b[1] * d, b[2] * d, h2, v2)>> :
     h1 \in {0, 2}, k2 \in {<<"BB", 0>>, <<"DD", 1>>, <<"DD", 2>>},
     b \in Bearings, d \in {70, 100, 140}, h2 \in {0, 2, 4, -2}, v2 \in {0, 10, 30}}

InitAvoid ==
  /\ NoBattle
  /\ \E pair \in Pairs :
       bench = [on |-> "avoid", allShips |-> pair, by |-> "spawn",
                collision |-> NoCollision, threats |-> <<NoThreat, NoThreat>>,
                steer |-> <<0, 0>>]

\* one AI step of the two ships where they are: what the predictor reports for
\* the first ship, and the avoidance steering each of the two gets
AvoidStep ==
  /\ bench.by = "spawn"
  /\ bench' = [bench EXCEPT
                 !.by = "avoid",
                 !.collision = predictCollision(bench.allShips[1], bench.allShips[2]),
                 !.threats = <<threat(bench.allShips[1], bench.allShips[2]),
                               threat(bench.allShips[2], bench.allShips[1])>>,
                 !.steer = <<calculateAvoidanceSteering(bench.allShips, 1),
                             calculateAvoidanceSteering(bench.allShips, 2)>>]
  /\ BenchOnly

\* one turn in tenths of a milliradian; an eighth of a turn is 0.7854 rad
TAU == 8 * 7854

\* the navigation term of steerToPoint: the heading error to the (land-safe)
\* target less the turn already under way, times steerMult (0.5, or 0.25 when
\* the ship already turns the right way faster than 0.05 rad/s)
navigationTerm(heading, desired, angularVel) ==
  LET headingDiff == normAngle(desired - heading, TAU)
      adjustedHeadingDiff == headingDiff - Scale(angularVel, 1, 2)
  IN IF Sign(angularVel) = Sign(headingDiff) /\ Abs(angularVel) > 500
       THEN Scale(adjustedHeadingDiff, 1, 4)
       ELSE Scale(adjustedHeadingDiff, 1, 2)

\* ai.js steerToPoint: the desiredTurn it hands to applyRudder.  landDanger is
\* checkLandDanger's result, desired the bearing of avoidLandTarget's point.
steerToPoint(heading, landDanger, desired, angularVel, avoidSteer) ==
  LET steerNeeded == normAngle(landDanger.angle - heading, TAU)
  IN IF landDanger.emergency
       THEN (IF landDanger.critical THEN steerNeeded * 2 ELSE Scale(steerNeeded, 1, 2))
       ELSE navigationTerm(heading, desired, angularVel) + avoidSteer

\* checkLandDanger's results: no land near, land ahead, land alongside
LandDangers ==
  {[emergency |-> FALSE, critical |-> FALSE, angle |-> 0]}
    \cup {[emergency |-> TRUE, critical |-> c, angle |-> a * 7854] :
            c \in BOOLEAN, a \in {-3, 1, 4}}

\* the first ship steers for a point: the rudder order and the rudder it gives
SteerToPoint ==
  /\ bench.by = "avoid"
  /\ \E landDanger \in LandDangers, desired \in {-2 * 7854, 0, 7854, 3 * 7854},
        angularVel \in {-1000, 0, 1000} :
       LET heading == bench.allShips[1].heading * 7854
           order == steerToPoint(heading, landDanger, desired, angularVel, bench.steer[1])
       IN bench' = [on |-> "steer", by |-> "steerToPoint",
                    land |-> landDanger.emergency,
                    navigation |-> navigationTerm(heading, desired, angularVel),
                    avoidance |-> bench.steer[1],
                    order |-> order,
                    rudderAngle |-> applyRudder(0, order, DT_CLAMP)]
  /\ BenchOnly

\* the first ship is a locked escort: avoidance alone moves the rudder, and
\* without a threat the rudder eases
LockedSteer ==
  /\ bench.by = "avoid"
  /\ bench' = [on |-> "steer", by |-> "locked", land |-> FALSE,
               navigation |-> 0,
               avoidance |-> bench.steer[1],
               order |-> bench.steer[1],
               rudderAngle |-> IF bench.steer[1] # 0
                                 THEN applyRudder(0, bench.steer[1], DT_CLAMP)
                                 ELSE lockedRudder(0)]
  /\ BenchOnly

NextAvoid == AvoidStep \/ SteerToPoint \/ LockedSteer

SpecAvoid == InitAvoid /\ [][NextAvoid]_vars

\* C14: when predictCollision reports willCollide with urgency > 0 for a
\* living pair, calculateAvoidanceSteering gives the ship a nonzero steer
C14_PredictedCollisionIsSteered ==
  (bench.on = "avoid" /\ bench.by = "avoid"
     /\ bench.collision.willCollide /\ bench.collision.urgency > 0)
    => bench.steer[1] # 0

\* C15: the rudder order of a ship steered by steerToPoint is its navigation
\* term plus the avoidance steer; nothing takes the place of the navigation
\* term
C15_OrderIsNavigationPlusAvoidance ==
  (bench.on = "steer" /\ bench.by = "steerToPoint")
    => bench.order = bench.navigation + bench.avoidance

\* C16: two ships that are each other's threat in the side-by-side case get
\* their turn directions from the comparison of their slot indices, and the
\* directions are opposite
C16_SideBySideTurnsOpposite ==
  (bench.on = "avoid" /\ bench.by = "avoid"
     /\ bench.threats[1].side = "beside" /\ bench.threats[2].side = "beside")
    => /\ bench.threats[1].steerDir = -bench.threats[2].steerDir
       /\ bench.threats[1].steerDir =
            (IF slotIndex(bench.allShips[1]) < slotIndex(bench.allShips[2]) THEN 1 ELSE -1)

-----------------------------------------------------------------------------
(* Land and the planners.  Positions are whole pixels; a point is <<x, y>>, *)
(* an island a record [x, y, r]; a direction is kept as a vector, and       *)
(* c + cos(a) * m, c + sin(a) * m for the angle a of a vector v is           *)
(* c + v * m / |v|, rounded towards zero.                                    *)

\* in tenths
MAP_SCALE == 28

scaled(v) == (v * MAP_SCALE) \div 10

\* WORLD.w and WORLD.h
WorldW == scaled(3200)

WorldH == scaled(2200)

isle(x, y, r) == [x |-> scaled(x), y |-> scaled(y), r |-> scaled(r)]

\* MAPS[2].land, Leyte Gulf
LeyteGulf ==
  <<isle(1180, 520, 160), isle(1320, 720, 180), isle(980, 760, 140),
    isle(1640, 980, 210), isle(1360, 1120, 160), isle(980, 1200, 150)>>

\* inLand: the first island of the map within pad of the point, 0 for null
inLand(p, pad, land) ==
  FirstOf({i \in DOMAIN land :
             (p[1] - land[i].x) * (p[1] - land[i].x) + (p[2] - land[i].y) * (p[2] - land[i].y)
               <= (land[i].r + pad) * (land[i].r + pad)})

\* the vector v stretched to the length m:  (dx / d) * m with d = Math.hypot(dx, dy) || 1
stretched(v, m) ==
  LET d == Hypot(v[1], v[2])
  IN IF d = 0 THEN <<0, 0>> ELSE <<Scale(v[1] * m, 1, d), Scale(v[2] * m, 1, d)>>

\* the distance from the island's centre to the nearest point of the leg s -> t:
\* the point at t = clamp(((c.x - sx) * vx + (c.y - sy) * vy) / vv, 0, 1)
legDistance(s, t, c) ==
  LET vx == t[1] - s[1]
      vy == t[2] - s[2]
      wx == c.x - s[1]
      wy == c.y - s[2]
      vv == vx * vx + vy * vy
      along1 == wx * vx + wy * vy
  IN IF along1 <= 0 THEN Hypot(wx, wy)
     ELSE IF along1 >= vv THEN Hypot(c.x - t[1], c.y - t[2])
     ELSE Abs(wx * vy - wy * vx) \div Isqrt(vv)

\* pathCrossesLand: the first island of the map the leg comes within c.r + pad
\* of (a sampled point of the leg or its closest point), 0 for null
pathCrossesLand(s, t, pad, land) ==
  IF s = t THEN 0
  ELSE FirstOf({i \in DOMAIN land : legDistance(s, t, land[i]) < land[i].r + pad})

\* the sign of the angle from vector a to vector b, normalised into [-pi, pi];
\* Math.atan2(0, 0) is 0, the angle of <<1, 0>>
turnSign(a0, b0) ==
  LET a == IF a0 = <<0, 0>> THEN <<1, 0>> ELSE a0
      b == IF b0 = <<0, 0>> THEN <<1, 0>> ELSE b0
      cross == a[1] * b[2] - a[2] * b[1]
      dot == a[1] * b[1] + a[2] * b[2]
  IN IF cross # 0 THEN Sign(cross)
     ELSE IF dot > 0 THEN 0
     ELSE IF a[2] > 0 \/ (a[2] = 0 /\ a[1] < 0) THEN -1
     ELSE 1

\* the passes of findWaypointAroundIsland's loop: a waypoint within
\* c.r + pad + 100 of another island is put c.r + pad + 150 from it
RECURSIVE clearOfOthers(_, _, _, _, _)
clearOfOthers(wp, island, pad, land, i) ==
  LET near == FirstOf({j \in DOMAIN land :
                 /\ j # island
                 /\ (wp[1] - land[j].x) * (wp[1] - land[j].x)
                      + (wp[2] - land[j].y) * (wp[2] - land[j].y)
                      < (land[j].r + pad + 100) * (land[j].r + pad + 100)})
  IN IF i >= 6 \/ near = 0 THEN [p |-> wp, passes |-> i]
     ELSE LET v == stretched(<<wp[1] - land[near].x, wp[2] - land[near].y>>,
                             land[near].r + pad + 150)
          IN clearOfOthers(<<land[near].x + v[1], land[near].y + v[2]>>,
                           island, pad, land, i + 1)

\* ai.js findWaypointAroundIsland: a quarter turn round the island from the
\* ship's bearing, on the target's side
findWaypointAroundIsland(s, t, island, pad, land) ==
  LET c == land[island]
      margin == c.r + pad + 200
      a == <<s[1] - c.x, s[2] - c.y>>
      dir == IF turnSign(a, <<t[1] - c.x, t[2] - c.y>>) = 0 THEN 1
             ELSE turnSign(a, <<t[1] - c.x, t[2] - c.y>>)
      quarter == stretched(IF a = <<0, 0>> THEN <<0, dir>> ELSE <<-a[2] * dir, a[1] * dir>>,
                           margin)
      r == clearOfOthers(<<c.x + quarter[1], c.y + quarter[2]>>, island, pad, land, 0)
  IN [p |-> <<clamp(r.p[1], 200, WorldW - 200), clamp(r.p[2], 200, WorldH - 200)>>,
      passes |-> r.passes]

\* the first loop of avoidLandTarget: up to 8 times, a target within pad of an
\* island is put hit.r + pad + 80 from its centre
RECURSIVE outOfLandMutNoCap(_, _, _, _)
outOfLandMutNoCap(p, pad, land, k) ==
  LET hit == inLand(p, pad, land)
  IN IF k >= 12 \/ hit = 0 THEN [p |-> p, passes |-> k]
     ELSE LET v == stretched(<<p[1] - land[hit].x, p[2] - land[hit].y>>,
                             land[hit].r + pad + 80)
          IN outOfLandMutNoCap(<<land[hit].x + v[1], land[hit].y + v[2]>>, pad, land, k + 1)

RECURSIVE outOfLand(_, _, _, _)
outOfLand(p, pad, land, k) ==
  LET hit == inLand(p, pad, land)
  IN IF k >= 8 \/ hit = 0 THEN [p |-> p, passes |-> k]
     ELSE LET v == stretched(<<p[1] - land[hit].x, p[2] - land[hit].y>>,
                             land[hit].r + pad + 80)
          IN outOfLand(<<land[hit].x + v[1], land[hit].y + v[2]>>, pad, land, k + 1)

\* what avoidLandTarget returns: the point kept 50 px inside the world; via,
\* pushes and passes tell the branch taken and the turns of the loops made
returned(res, via, pushes, passes) ==
  [p |-> <<clamp(res[1], 50, WorldW - 50), clamp(res[2], 50, WorldH - 50)>>,
   via |-> via, pushes |-> pushes, passes |-> passes]

\* if (wpCrossing && wpCrossing !== crossing): a second waypoint, round the
\* island the leg to the first one crosses
secondWaypoint(s, pad, out, crossing, wp, wpCrossing, land) ==
  IF wpCrossing # 0 /\ wpCrossing # crossing
    THEN LET wp2 == findWaypointAroundIsland(s, wp.p, wpCrossing, pad, land)
         IN returned(wp2.p, "second", out.passes,
                     IF wp.passes > wp2.passes THEN wp.passes ELSE wp2.passes)
    ELSE returned(wp.p, "first", out.passes, wp.passes)

\* if (crossing): a waypoint round the island the leg to the target crosses
firstWaypoint(s, pad, out, crossing, land) ==
  IF crossing = 0 THEN returned(out.p, "direct", out.passes, 0)
  ELSE LET wp == findWaypointAroundIsland(s, out.p, crossing, pad, land)
       IN secondWaypoint(s, pad, out, crossing, wp,
                         pathCrossesLand(s, wp.p, pad, land), land)

\* the target once out of the land
avoidLandFrom(s, pad, out, land) ==
  firstWaypoint(s, pad, out, pathCrossesLand(s, out.p, pad, land), land)

\* ai.js avoidLandTarget for a ship of the given kind at s, ordered to t
avoidLandTarget(kind, s, t, land) ==
  avoidLandFrom(s, radius(kind) + 120, outOfLand(t, radius(kind) + 120, land, 0), land)

-----------------------------------------------------------------------------
(* Commander path planning *)

ESCORT_FORMATION_RADIUS == 500

COMMANDER_LAND_MARGIN == 200 + ESCORT_FORMATION_RADIUS

dist2(p, c) == (p[1] - c.x) * (p[1] - c.x) + (p[2] - c.y) * (p[2] - c.y)

\* isPointSafe: distanceToNearestLand(x, y) >= margin
isPointSafe(p, margin, land) ==
  \A i \in DOMAIN land : dist2(p, land[i]) >= (land[i].r + margin) * (land[i].r + margin)

\* one pass of pushToSafePoint over the islands from the i-th on: the summed push
RECURSIVE totalPush(_, _, _, _)
totalPush(p, margin, land, i) ==
  IF i > Len(land) THEN [x |-> 0, y |-> 0, needsPush |-> FALSE]
  ELSE LET rest == totalPush(p, margin, land, i + 1)
           c == land[i]
           d == Hypot(p[1] - c.x, p[2] - c.y)
           minDist == c.r + margin
       IN IF dist2(p, c) < minDist * minDist /\ dist2(p, c) > 0
            THEN [x |-> Scale((p[1] - c.x) * ((minDist - d) + 50), 1, d) + rest.x,
                  y |-> Scale((p[2] - c.y) * ((minDist - d) + 50), 1, d) + rest.y,
                  needsPush |-> TRUE]
            ELSE rest

\* for (let iter = 0; iter < 15; iter++): passes counts the pushes made
RECURSIVE pushed(_, _, _, _)
pushed(p, margin, land, iter) ==
  LET push == totalPush(p, margin, land, 1)
  IN IF iter >= 15 \/ ~push.needsPush THEN [p |-> p, passes |-> iter]
     ELSE pushed(<<p[1] + push.x, p[2] + push.y>>, margin, land, iter + 1)

\* ai.js pushToSafePoint
pushToSafePoint(p, margin, land) ==
  LET r == pushed(p, margin, land, 0)
  IN [p |-> <<clamp(r.p[1], margin + 100, WorldW - margin - 100),
              clamp(r.p[2], margin + 100, WorldH - margin - 100)>>,
      passes |-> r.passes]

\* Math.ceil(Math.hypot(dx, dy) / per)
stepsFor(dx, dy, per) ==
  LET d == Hypot(dx, dy)
      up == IF d * d = dx * dx + dy * dy THEN d ELSE d + 1
  IN (up + per - 1) \div per

\* isDirectPathClear: every sampled point of the leg is safe
isDirectPathClear(s, e, margin, land) ==
  LET n == stepsFor(e[1] - s[1], e[2] - s[2], 100)
      steps == IF n < 10 THEN 10 ELSE n
  IN \A i \in 0..steps :
       isPointSafe(<<s[1] + Scale((e[1] - s[1]) * i, 1, steps),
                     s[2] + Scale((e[2] - s[2]) * i, 1, steps)>>, margin, land)

doesPathPassNearIsland(s, e, c, margin) ==
  /\ s # e
  /\ legDistance(s, e, c) < c.r + margin + 100

\* generateCurveAroundIsland: a waypoint on the bisector of the bearings of
\* start and end from the island, then pushed to a safe point
generateCurveAroundIsland(s, e, c, margin, land) ==
  LET curveMargin == c.r + margin + 150
      a == IF <<s[1] - c.x, s[2] - c.y>> = <<0, 0>> THEN <<1, 0>>
           ELSE <<s[1] - c.x, s[2] - c.y>>
      b == IF <<e[1] - c.x, e[2] - c.y>> = <<0, 0>> THEN <<1, 0>>
           ELSE <<e[1] - c.x, e[2] - c.y>>
      ua == stretched(a, 1000)
      ub == stretched(b, 1000)
      opposite == a[1] * b[2] - a[2] * b[1] = 0 /\ a[1] * b[1] + a[2] * b[2] < 0
      mid == IF opposite
               THEN <<-a[2] * turnSign(a, b), a[1] * turnSign(a, b)>>
               ELSE <<ua[1] + ub[1], ua[2] + ub[2]>>
      wp == stretched(mid, curveMargin)
  IN pushToSafePoint(<<c.x + wp[1], c.y + wp[2]>>, margin, land).p

\* blockingIslands.sort by distance from the start (a stable sort)
RECURSIVE nearestFirst(_, _, _)
nearestFirst(S, s, land) ==
  IF S = {} THEN <<>>
  ELSE LET i == CHOOSE i \in S : \A j \in S :
                  \/ dist2(s, land[i]) < dist2(s, land[j])
                  \/ (dist2(s, land[i]) = dist2(s, land[j]) /\ i <= j)
       IN <<i>> \o nearestFirst(S \ {i}, s, land)

\* for (const island of blockingIslands): one waypoint for each, each curve
\* starting from the waypoint before
RECURSIVE curves(_, _, _, _, _)
curves(cur, e, islands, margin, land) ==
  IF islands = <<>> THEN <<>>
  ELSE LET wp == generateCurveAroundIsland(cur, e, land[Head(islands)], margin, land)
       IN <<wp>> \o curves(wp, e, Tail(islands), margin, land)

\* the path to the safe end e past the blocking islands
smoothPathTo(s, e, blocking, margin, land) ==
  IF isDirectPathClear(s, e, margin, land) \/ blocking = {} THEN <<e>>
  ELSE curves(s, e, nearestFirst(blocking, s, land), margin, land) \o <<e>>

\* the islands the leg passes near
blockingIslands(s, e, margin, land) ==
  {i \in DOMAIN land : doesPathPassNearIsland(s, e, land[i], margin)}

smoothPathFrom(s, e, margin, land) ==
  smoothPathTo(s, e, blockingIslands(s, e, margin, land), margin, land)

\* ai.js generateSmoothPath
generateSmoothPath(s, e0, margin, land) ==
  smoothPathFrom(s, pushToSafePoint(e0, margin, land).p, margin, land)

\* for (const wp of path): every waypoint checked once more
validatedPath(path, margin, land) ==
  [i \in DOMAIN path |->
     IF isPointSafe(path[i], (margin * 8) \div 10, land) THEN path[i]
     ELSE pushToSafePoint(path[i], margin, land).p]

planCommanderRouteMutStraight(s, t, land) ==
  <<pushToSafePoint(t, COMMANDER_LAND_MARGIN, land).p>>

\* ai.js planCommanderRoute
planCommanderRoute(s, t, land) ==
  validatedPath(
    generateSmoothPath(s, pushToSafePoint(t, COMMANDER_LAND_MARGIN, land).p,
                       COMMANDER_LAND_MARGIN, land),
    COMMANDER_LAND_MARGIN, land)

\* the scenario's chart: one island of radius 200 at (500, 1000)
OneIsland == <<[x |-> 500, y |-> 1000, r |-> 200]>>

-----------------------------------------------------------------------------
(* Escort slots *)

\* in tenths
FORM_SEP == 45 * MAP_SCALE

\* getEscortPositions: outerRingRadius = sep * 4.0
outerRingRadius == (FORM_SEP * 4) \div 10

\* the front slots at -63, +63 and +12.6 degrees off the bow: <<formF, formR>>,
\* cos and sin in thousandths
Slots ==
  {<<Scale(454 * outerRingRadius, 1, 1000), Scale(-891 * outerRingRadius, 1, 1000)>>,
   <<Scale(454 * outerRingRadius, 1, 1000), Scale(891 * outerRingRadius, 1, 1000)>>,
   <<Scale(976 * outerRingRadius, 1, 1000), Scale(218 * outerRingRadius, 1, 1000)>>}

\* entities.js formationPoint: the slot of the ship, half a second ahead of
\* its capital, moved out of the island it falls on; the capital's heading is
\* the unit vector course, in thousandths
formationPoint(cap, ship, land) ==
  LET ca == cap.course[1]
      sa == cap.course[2]
      f == ship.formF
      r == ship.formR
      predictX == cap.x + Scale(cap.vx, 1, 2)
      predictY == cap.y + Scale(cap.vy, 1, 2)
      fx == predictX + Scale(ca * f - sa * r, 1, 1000)
      fy == predictY + Scale(sa * f + ca * r, 1, 1000)
      landHit == inLand(<<fx, fy>>, radius(ship.kind) + 30, land)
      want == land[landHit].r + radius(ship.kind) + 50
      out == stretched(<<fx - land[landHit].x, fy - land[landHit].y>>, want)
      res == IF landHit = 0 THEN <<fx, fy>>
             ELSE <<land[landHit].x + out[1], land[landHit].y + out[2]>>
  IN <<clamp(res[1], 0, WorldW), clamp(res[2], 0, WorldH)>>

-----------------------------------------------------------------------------
(* The planners on a chart: a ship of some kind at s is ordered to t. *)

Charts == {OneIsland, LeyteGulf}

Starts ==
  {<<500, 500>>, <<1960, 5880>>, <<1960, 1960>>, <<280, 5880>>,
   <<3920, 1400>>, <<4480, 3360>>, <<7000, 3000>>, <<3640, 1120>>}

\* orders: open water, the far side of an island, and the centre of an island
Targets ==
  {<<500, 1500>>, <<4760, 1960>>, <<4200, 2520>>, <<8000, 5000>>,
   <<500, 1000>>, <<LeyteGulf[1].x, LeyteGulf[1].y>>,
   <<LeyteGulf[2].x + 100, LeyteGulf[2].y>>, <<100, 100>>}

\* speeds of the capital, px/s
CapitalSpeeds == {0, 40}

InitPlan ==
  /\ NoBattle
  /\ bench \in {[on |-> "plan", land |-> land, kind |-> kind, s |-> s, t |-> t,
                 course |-> <<1000, 0>>, slot |-> <<0, 0>>, speed |-> 0,
                 call |-> "none", p |-> <<0, 0>>, via |-> "none",
                 pushes |-> 0, passes |-> 0, path |-> <<>>] :
                  land \in Charts, kind \in {"DD", "BB"},
                  s \in {q \in Starts : \A l \in Charts : inLand(q, radius("CV"), l) = 0},
                  t \in Targets}

\* updateAI: ship.wp = avoidLandTarget(ship, target.x, target.y)
AvoidLandTarget ==
  /\ bench.on = "plan"
  /\ bench.call = "none"
  /\ LET r == avoidLandTarget(bench.kind, bench.s, bench.t, bench.land)
     IN bench' = [bench EXCEPT !.call = "avoidLandTarget", !.p = r.p, !.via = r.via,
                               !.pushes = r.pushes, !.passes = r.passes]
  /\ BenchOnly

\* the formation-follow branch: the ship's slot on the capital at s
FormationPoint ==
  /\ bench.on = "plan"
  /\ bench.call = "none"
  /\ \E course \in Courses, slot \in Slots, speed \in CapitalSpeeds :
       bench' = [bench EXCEPT
                   !.call = "formationPoint", !.course = course, !.slot = slot,
                   !.speed = speed,
                   !.p = formationPoint(
                           [x |-> bench.s[1], y |-> bench.s[2], course |-> course,
                            vx |-> Scale(course[1] * speed, 1, 1000),
                            vy |-> Scale(course[2] * speed, 1, 1000)],
                           [kind |-> bench.kind, formF |-> slot[1], formR |-> slot[2]],
                           bench.land)]
  /\ BenchOnly

\* the commander's destination made safe
PushToSafePoint ==
  /\ bench.on = "plan"
  /\ bench.call = "none"
  /\ LET r == pushToSafePoint(bench.t, COMMANDER_LAND_MARGIN, bench.land)
     IN bench' = [bench EXCEPT !.call = "pushToSafePoint", !.p = r.p, !.passes = r.passes]
  /\ BenchOnly

\* commander.routePath = planCommanderRoute(commander, dest.x, dest.y)
PlanCommanderRoute ==
  /\ bench.on = "plan"
  /\ bench.call = "none"
  /\ LET path == planCommanderRoute(bench.s, bench.t, bench.land)
     IN bench' = [bench EXCEPT
                    !.call = "planCommanderRoute", !.path = path,
                    !.p = path[Len(path)],
                    !.passes = pushToSafePoint(bench.t, COMMANDER_LAND_MARGIN,
                                               bench.land).passes]
  /\ BenchOnly

NextPlan == AvoidLandTarget \/ FormationPoint \/ PushToSafePoint \/ PlanCommanderRoute

SpecPlan == InitPlan /\ [][NextPlan]_vars

\* C17: the point avoidLandTarget returns is not within the ship's margin
\* (hull radius plus the 120 px pad) of any island.
C17_WaypointClearOfLand ==
  (bench.on = "plan" /\ bench.call = "avoidLandTarget")
    => inLand(bench.p, radius(bench.kind) + 120, bench.land) = 0

\* C18: the slot position formationPoint returns is not within the following
\* ship's margin (hull radius plus 30 px) of any island.
C18_SlotClearOfLand ==
  (bench.on = "plan" /\ bench.call = "formationPoint")
    => inLand(bench.p, radius(bench.kind) + 30, bench.land) = 0

\* C19: every planner call returns within its caps: at most 8 pushes of the
\* target and 6 passes of the waypoint loop in avoidLandTarget, at most 15
\* passes in pushToSafePoint, and a route of at most one waypoint for each
\* island plus the destination.
C19_PlannersWithinCaps ==
  (bench.on = "plan" /\ bench.call # "none")
    => /\ bench.pushes <= 8
       /\ bench.passes <= (IF bench.call = "avoidLandTarget" THEN 6 ELSE 15)
       /\ Len(bench.path) <= Len(bench.land) + 1

\* a target at the very centre of an island is never moved: all 8 pushes are used
C19_Witness ==
  /\ bench.on = "plan"
  /\ bench.call = "avoidLandTarget"
  /\ inLand(bench.t, 0, bench.land) # 0
  /\ bench.pushes = 8

\* the scenario: from (500, 500) to (500, 1500) past (500, 1000), radius 200
Scenario ==
  /\ bench.on = "plan"
  /\ bench.call = "planCommanderRoute"
  /\ bench.land = OneIsland
  /\ bench.s = <<500, 500>>
  /\ bench.t = <<500, 1500>>

\* C20: in the scenario planCommanderRoute returns at least 2 waypoints, none
\* of them within 200 + COMMANDER_LAND_MARGIN of (500, 1000).
C20_ScenarioRoute ==
  Scenario
    => /\ Len(bench.path) >= 2
       /\ \A i \in DOMAIN bench.path :
            dist2(bench.path[i], OneIsland[1])
              >= (200 + COMMANDER_LAND_MARGIN) * (200 + COMMANDER_LAND_MARGIN)

C20_Witness ==
  /\ Scenario
  /\ Len(bench.path) = 2
  /\ bench.path[2] # bench.t

-----------------------------------------------------------------------------
(* The commander's route.  A waypoint is a name; the ship is within 180 px  *)
(* of at most one of them, the one bench.at names.                          *)

EngageRoutes == {<<"e1", "e2">>, <<"e3">>}

PatrolRoutes == {<<"p1", "p2">>, <<"p3">>}

\* the routes the planners and the orbit branch hand out
FreshRoutes == EngageRoutes \cup PatrolRoutes \cup {<<"orbit">>}

Places == {"spawn", "sea", "orbit"} \cup UNION {{r[i] : i \in DOMAIN r} : r \in FreshRoutes}

\* mkShip: ai.wpX, ai.wpY are the spawn point; the commander flag is set
InitRoute ==
  /\ NoBattle
  /\ bench = [on |-> "route", ship |-> [mkShip("BB") EXCEPT !.isCommander = TRUE],
              at |-> "spawn", was |-> <<>>, from |-> "spawn", vis |-> "unset"]

\* (ai.wpX, ai.wpY) when the arrival test is made: the first waypoint of the
\* engagement route if one was planned in this step
aimedAt(ship, vis, engageRoute) ==
  IF vis # "none" /\ ship.routeState = "patrol" THEN engageRoute[1] ELSE ship.wp

\* one tick of the commander: capitalAutoPilot's commander branch, then
\* physicsStep moves the ship
CommanderTick ==
  /\ bench.on = "route"
  /\ \E vis \in Sights, engageRoute \in EngageRoutes, patrolRoute \in PatrolRoutes,
        to \in Places :
       bench' = [bench EXCEPT
                   !.ship = CommandFleet(bench.ship, vis,
                                         bench.at = aimedAt(bench.ship, vis, engageRoute),
                                         engageRoute, patrolRoute),
                   !.at = to,
                   !.was = bench.ship.plannedPath,
                   !.from = bench.at,
                   !.vis = vis]
  /\ BenchOnly

NextRoute == CommanderTick

SpecRoute == InitRoute /\ [][NextRoute]_vars

-----------------------------------------------------------------------------
(* Two ships closing head-on *)

\* the heading half a turn from a quarter-turn heading
reverse(heading) ==
  CASE heading = 0 -> 4
    [] heading = 2 -> -2
    [] heading = 4 -> 0
    [] heading = -2 -> 2

\* two ships of any classes 100 px apart, bows on, each making 10 px/s
HeadOnPairs ==
  {<<afloat(k1, 0, 0, 0, h, 10),
     afloat(k2, 0, along(h, 100)[1], along(h, 100)[2], reverse(h), 10)>> :
     k1 \in Kinds, k2 \in Kinds, h \in {0, 2, 4, -2}}

\* the distance between the two, px
separation(pair) == Hypot(pair[2].x - pair[1].x, pair[2].y - pair[1].y)

InitHeadOn ==
  /\ NoBattle
  /\ \E pair \in HeadOnPairs :
       bench = [on |-> "headOn", allShips |-> pair, ticks |-> 0,
                collision |-> NoCollision, sepAt |-> separation(pair)]

\* a ship half a second on: x += vx * dt, y += vy * dt
movedOn(ship) == [ship EXCEPT !.x = @ + ship.vx \div 2, !.y = @ + ship.vy \div 2]

\* half a second of the two: the first ship's AI step asks predictCollision
\* where they are (sepAt apart), then physicsStep moves both
HeadOnTick ==
  /\ bench.on = "headOn"
  /\ bench.ticks < 12
  /\ bench' = [bench EXCEPT
                 !.ticks = @ + 1,
                 !.sepAt = separation(bench.allShips),
                 !.collision = predictCollision(bench.allShips[1], bench.allShips[2]),
                 !.allShips = <<movedOn(bench.allShips[1]), movedOn(bench.allShips[2])>>]
  /\ BenchOnly

NextHeadOn == HeadOnTick

SpecHeadOn == InitHeadOn /\ [][NextHeadOn]_vars

\* the first prediction of the scenario: made with the two 100 px apart
FirstPrediction == bench.on = "headOn" /\ bench.ticks = 1

\* C22, as claimed: for any two living ships closing head-on at 10 px/s each from
\* 100 px apart, predictCollision reports willCollide with timeToCollision about
\* 5 s (times are in tenths of a second), while they are still 60 px or more apart.
C22_HeadOnFlaggedAtFive ==
  FirstPrediction
    => /\ bench.collision.willCollide
       /\ bench.collision.timeToCollision \in 45..55
       /\ bench.sepAt >= 60

\* the two hulls leave room: 100 px is not below r1 + r2 + 40 + 30
ClearHulls ==
  radius(bench.allShips[1].kind) + radius(bench.allShips[2].kind) <= 30

\* C22, amended: when the two hull radii sum to at most 30 the report is
\* willCollide with timeToCollision 5 s, made 100 px apart; for larger hulls it
\* is willCollide with timeToCollision 0.
C22_HeadOnFlagged ==
  FirstPrediction
    => /\ bench.collision.willCollide
       /\ bench.sepAt >= 60
       /\ bench.collision.timeToCollision = (IF ClearHulls THEN 50 ELSE 0)

\* two destroyers, flagged five seconds ahead
C22_Witness ==
  /\ FirstPrediction
  /\ bench.allShips[1].kind = "DD"
  /\ bench.allShips[2].kind = "DD"
  /\ bench.collision.willCollide
  /\ bench.collision.timeToCollision = 50

-----------------------------------------------------------------------------
(* The throttle ramp: a ship at 50 % ordered to 100 % on every tick *)

\* the longest ramp followed, ms
MaxRamp == 1400

InitRamp ==
  /\ NoBattle
  /\ bench = [on |-> "ramp", throttle |-> HalfThrottle, before |-> HalfThrottle,
              elapsed |-> 0]

\* one tick: updateAIThrottle(ship, 100, dt)
RampTick ==
  /\ bench.on = "ramp"
  /\ \E dtv \in FrameTimes :
       /\ bench.elapsed + dtv <= MaxRamp
       /\ bench' = [bench EXCEPT
                      !.throttle = updateAIThrottle(@, FullThrottle, dtv),
                      !.before = bench.throttle,
                      !.elapsed = @ + dtv]
  /\ BenchOnly

NextRamp == RampTick

SpecRamp == InitRamp /\ [][NextRamp]_vars

\* C23: ordered from 50 to 100 on every tick, the throttle is exactly 100 once
\* the accumulated tick time reaches 50 / THROTTLE_CHANGE_RATE seconds and not
\* before; it never exceeds 100 and never decreases on the way.
C23_RampReachesFullOnTime ==
  bench.on = "ramp"
    => /\ bench.throttle = FullThrottle
            <=> THROTTLE_CHANGE_RATE * bench.elapsed >= FullThrottle - HalfThrottle
       /\ bench.throttle <= FullThrottle
       /\ bench.throttle >= bench.before

\* the tick that completes the ramp
C23_Witness ==
  /\ bench.on = "ramp"
  /\ bench.before < FullThrottle
  /\ bench.throttle = FullThrottle

-----------------------------------------------------------------------------
(* One tick of the throttle in each control mode *)

\* throttles an AI ship can have: every tenth from 0 to 100 %
ThrottleLevels == {10 * 1000 * n : n \in 0..10}

InitThrottleStep ==
  /\ NoBattle
  /\ \E throttle \in ThrottleLevels :
       bench = [on |-> "throttleStep", throttle |-> throttle, before |-> throttle,
                dtv |-> 0, by |-> "spawn"]

\* playerControl: updateThrottle(ctrl, dt)
PlayerThrottleStep ==
  /\ bench.on = "throttleStep"
  /\ bench.by = "spawn"
  /\ \E keyW \in BOOLEAN, keyS \in BOOLEAN, dtv \in FrameTimes :
       bench' = [bench EXCEPT !.throttle = updateThrottle(@, keyW, keyS, dtv),
                              !.dtv = dtv, !.by = "player"]
  /\ BenchOnly

\* the commander, a transiting escort, a ship of the player's formation:
\* updateAIThrottle(ship, target, dt)
AiThrottleStep ==
  /\ bench.on = "throttleStep"
  /\ bench.by = "spawn"
  /\ \E targetThrottle \in ThrottleTargets, dtv \in FrameTimes :
       bench' = [bench EXCEPT !.throttle = updateAIThrottle(@, targetThrottle, dtv),
                              !.dtv = dtv, !.by = "ai"]
  /\ BenchOnly

\* the locked escort, a BB: ship.throttle = clamp(leaderSpeed / maxSpeed * 100, 0, 100)
LockedThrottleStep ==
  /\ bench.on = "throttleStep"
  /\ bench.by = "spawn"
  /\ \E leaderSpeed \in {0, maxSpeed("CV"), maxSpeed("DD")}, dtv \in FrameTimes :
       bench' = [bench EXCEPT !.throttle = lockedThrottle(leaderSpeed, maxSpeed("BB")),
                              !.dtv = dtv, !.by = "locked"]
  /\ BenchOnly

NextThrottleStep == PlayerThrottleStep \/ AiThrottleStep \/ LockedThrottleStep

SpecThrottleStep == InitThrottleStep /\ [][NextThrottleStep]_vars

\* C24: in a tick the throttle changes by at most THROTTLE_CHANGE_RATE x dt, in
\* every control mode.
C24_ThrottleStepBounded ==
  (bench.on = "throttleStep" /\ bench.by # "spawn")
    => Abs(bench.throttle - bench.before) <= THROTTLE_CHANGE_RATE * bench.dtv

-----------------------------------------------------------------------------
(* One tick of the rudder in each control mode *)

\* rudder angles between the stops, by quarters of the stop
RudderLevels == {(MAX_RUDDER_ANGLE * n) \div 4 : n \in -4..4}

\* the fastest rate the rudder is moved at: rudderSpeed = 0.3 rad/s in
\* applyRudder, RUDDER_RETURN_RATE for the player
rudderSpeed == RUDDER_RETURN_RATE

InitRudderStep ==
  /\ NoBattle
  /\ \E rudderAngle \in RudderLevels :
       bench = [on |-> "rudderStep", rudderAngle |-> rudderAngle, before |-> rudderAngle,
                dtv |-> 0, by |-> "spawn"]

\* steerToPoint and the avoiding locked escort: applyRudder(ship, desiredTurn, dt)
AiRudderStep ==
  /\ bench.on = "rudderStep"
  /\ bench.by = "spawn"
  /\ \E desiredTurn \in TurnChoices, dtv \in FrameTimes :
       bench' = [bench EXCEPT !.rudderAngle = applyRudder(@, desiredTurn, dtv),
                              !.dtv = dtv, !.by = "ai"]
  /\ BenchOnly

\* playerControl: applyPlayerRudder(ctrl, steerInput, dt)
PlayerRudderStep ==
  /\ bench.on = "rudderStep"
  /\ bench.by = "spawn"
  /\ \E steerInput \in {-1, 0, 1}, dtv \in FrameTimes :
       bench' = [bench EXCEPT !.rudderAngle = applyPlayerRudder(@, steerInput, dtv),
                              !.dtv = dtv, !.by = "player"]
  /\ BenchOnly

\* the locked escort with nothing to avoid: ship.rudderAngle *= 0.95
LockedRudderStep ==
  /\ bench.on = "rudderStep"
  /\ bench.by = "spawn"
  /\ \E dtv \in FrameTimes :
       bench' = [bench EXCEPT !.rudderAngle = lockedRudder(@), !.dtv = dtv, !.by = "locked"]
  /\ BenchOnly

NextRudderStep == AiRudderStep \/ PlayerRudderStep \/ LockedRudderStep

SpecRudderStep == InitRudderStep /\ [][NextRudderStep]_vars

\* C25: in a tick the rudder angle changes by at most the rudder rate x dt, in
\* every control mode.
C25_RudderStepBounded ==
  (bench.on = "rudderStep" /\ bench.by # "spawn")
    => Abs(bench.rudderAngle - bench.before) <= rudderSpeed * bench.dtv

-----------------------------------------------------------------------------
(* Corrupted numbers.  A field is [is |-> "num", v |-> n], or NaN or        *)
(* undefined with v = 0.  Arithmetic on a corrupted value gives NaN, every   *)
(* comparison with it is false, and (x || 0) reads it as 0.                  *)

Num(n) == [is |-> "num", v |-> n]

NaN == [is |-> "NaN", v |-> 0]

Undefined == [is |-> "undefined", v |-> 0]

\* isNaN(x) || x === undefined
corrupted(a) == a.is # "num"

\* the angular velocities are in tenths of a milliradian per second
turnRate(kind) ==
  CASE kind = "DD" -> 15000
    [] kind = "BB" -> 8000
    [] kind = "TB" -> 18000
    [] kind = "CV" -> 6000

\* the second half of applyRudder and applyPlayerRudder: the turn rate follows
\* the rudder, the heading follows the turn rate, and last of all a corrupted
\* rudder is reset to 0.  gain and cap are in tenths, inertia in thousandths.
turned(ship, rudder, dtv, gain, cap, inertia) ==
  LET vel == IF corrupted(ship.angularVel) THEN 0 ELSE ship.angularVel.v
      targetTurnRate == Scale(turnRate(ship.kind) * rudder.v, 1, MAX_RUDDER_ANGLE)
      maxAngularChange == (turnRate(ship.kind) * dtv * cap) \div 10000
      newVel == Scale((vel + clamp(Scale((targetTurnRate - vel) * gain * dtv, 1, 10000),
                                   -maxAngularChange, maxAngularChange)) * inertia,
                      1, 1000)
  IN IF corrupted(rudder)
       THEN [ship EXCEPT !.rudderAngle = Num(0), !.angularVel = NaN, !.heading = NaN]
       ELSE [ship EXCEPT
               !.rudderAngle = rudder,
               !.angularVel = Num(newVel),
               !.heading = IF corrupted(ship.heading) THEN NaN
                           ELSE Num(ship.heading.v + Scale(newVel * dtv, 1, 1000))]

\* ai.js applyRudder on a ship whose fields may be corrupted.  A corrupted
\* rudder is read as 0 by (ship.rudderAngle || 0), but not by
\* Math.sign(ship.rudderAngle), and an assignment skipped leaves it corrupted.
applyRudderTo(ship, desiredTurn, dtv) ==
  LET targetRudder == clamp(desiredTurn, -MAX_RUDDER_ANGLE, MAX_RUDDER_ANGLE)
      returnSpeed == 2 * dtv
      rudder == IF ~corrupted(ship.rudderAngle)
                  THEN Num(applyRudder(ship.rudderAngle.v, desiredTurn, dtv))
                ELSE IF Abs(targetRudder) > 100
                  THEN Num(applyRudder(0, desiredTurn, dtv))
                ELSE IF 0 < returnSpeed THEN Num(0)
                ELSE NaN
  IN turned(ship, rudder, dtv, 6, 8, 980)

\* input.js applyPlayerRudder on a ship whose fields may be corrupted
applyPlayerRudderTo(ship, steerInput, dtv) ==
  LET returnSpeed == RUDDER_RETURN_RATE * dtv
      rudder == IF ~corrupted(ship.rudderAngle)
                  THEN Num(applyPlayerRudder(ship.rudderAngle.v, steerInput, dtv))
                ELSE IF steerInput # 0
                  THEN Num(applyPlayerRudder(0, steerInput, dtv))
                ELSE IF 0 < returnSpeed THEN Num(0)
                ELSE NaN
  IN turned(ship, rudder, dtv, 5, 20, 995)

\* updateAIThrottle: a corrupted throttle is 50 before anything is computed
updateAIThrottleOf(throttle, targetThrottle, dtv) ==
  Num(updateAIThrottle(IF corrupted(throttle) THEN HalfThrottle ELSE throttle.v,
                       targetThrottle, dtv))

\* updateThrottle: Math.min and Math.max of a corrupted throttle are NaN, and
\* the test that follows makes it 50
updateThrottleOf(throttle, keyW, keyS, dtv) ==
  IF corrupted(throttle) THEN Num(HalfThrottle)
  ELSE Num(updateThrottle(throttle.v, keyW, keyS, dtv))

\* what a field may hold at the start of a control step
Corrupt(values) == {Num(v) : v \in values} \cup {NaN, Undefined}

\* dt = clamp((now - last) / 1000, 0, 0.033): two frames with one time stamp give 0
StepTimes == {0} \cup FrameTimes

InitCorrupt ==
  /\ NoBattle
  /\ \E throttle \in Corrupt({HalfThrottle}),
        rudderAngle \in Corrupt({0, MAX_RUDDER_ANGLE}),
        angularVel \in Corrupt({0, 2000}),
        kind \in {"BB", "DD"} :
       bench = [on |-> "corrupt", by |-> "spawn", dtv |-> 0,
                ship |-> [kind |-> kind, throttle |-> throttle, rudderAngle |-> rudderAngle,
                          angularVel |-> angularVel, heading |-> Num(0)]]

\* an AI control step: updateAIThrottle, then applyRudder from steerToPoint
AiControlStep ==
  /\ bench.on = "corrupt"
  /\ bench.by = "spawn"
  /\ \E targetThrottle \in {HalfThrottle, FullThrottle}, desiredTurn \in TurnChoices,
        dtv \in StepTimes :
       bench' = [bench EXCEPT
                   !.by = "ai", !.dtv = dtv,
                   !.ship = applyRudderTo(
                              [bench.ship EXCEPT
                                 !.throttle = updateAIThrottleOf(@, targetThrottle, dtv)],
                              desiredTurn, dtv)]
  /\ BenchOnly

\* playerControl: updateThrottle, then applyPlayerRudder
PlayerControlStep ==
  /\ bench.on = "corrupt"
  /\ bench.by = "spawn"
  /\ \E keyW \in BOOLEAN, keyS \in BOOLEAN, steerInput \in {-1, 0, 1}, dtv \in StepTimes :
       bench' = [bench EXCEPT
                   !.by = "player", !.dtv = dtv,
                   !.ship = applyPlayerRudderTo(
                              [bench.ship EXCEPT
                                 !.throttle = updateThrottleOf(@, keyW, keyS, dtv)],
                              steerInput, dtv)]
  /\ BenchOnly

NextCorrupt == AiControlStep \/ PlayerControlStep

SpecCorrupt == InitCorrupt /\ [][NextCorrupt]_vars

\* C26: after a control step that began with a NaN or undefined throttle,
\* rudder angle or angular velocity, the throttle, the rudder angle, the
\* angular velocity and the heading are numbers.
C26_CorruptedFieldsAreReset ==
  (bench.on = "corrupt" /\ bench.by # "spawn")
    => /\ ~corrupted(bench.ship.throttle)
       /\ ~corrupted(bench.ship.rudderAngle)
       /\ ~corrupted(bench.ship.angularVel)
       /\ ~corrupted(bench.ship.heading)

-----------------------------------------------------------------------------
(* The escort slots of one team through sinkings and elections.  dist is    *)
(* each escort's distance to the centre of the capitals, which changes as   *)
(* the ships sail.                                                          *)

\* resetWorld: planKinds gives at least four ships, sortKinds orders them
SlotRosters == {<<"BB", "DD", "DD", "TB">>, <<"CV", "BB", "DD", "TB">>}

Ranges == 1..3

\* escorts.slice().sort((a, b) => da - db): a stable sort by distance
escortsByDist(teamArr, dist) ==
  LET S == {i \in Idx(teamArr) : IsEscort(teamArr[i].kind)}
      nearer(a, b) == \/ dist[a] < dist[b]
                      \/ dist[a] = dist[b] /\ a < b
      rank(a) == Cardinality({b \in S : nearer(b, a)}) + 1
  IN [p \in 1..Cardinality(S) |-> CHOOSE a \in S : rank(a) = p]

\* the team as resetWorld leaves it
mustered(kinds, dist) ==
  LET formed == setFormation(Fleet(kinds))
  IN [on |-> "slots", by |-> "muster", dist |-> dist, was |-> formed,
      team |-> assignEscortPositions(formed, escortsByDist(formed, dist)),
      calls |-> 0]

\* a distance for every escort; 0 stands for the capitals, which have none
Distances(kinds) ==
  {[i \in DOMAIN kinds |-> IF IsEscort(kinds[i]) THEN d[i] ELSE 0] :
     d \in [DOMAIN kinds -> Ranges]}

InitSlots ==
  /\ NoBattle
  /\ \E kinds \in SlotRosters : \E dist \in Distances(kinds) : bench = mustered(kinds, dist)

\* a living escort sails nearer or farther: its distance changes, no slot does
Sail ==
  /\ bench.on = "slots"
  /\ \E i \in {j \in AliveIdx(bench.team) : IsEscort(bench.team[j].kind)}, d \in Ranges :
       /\ d # bench.dist[i]
       /\ bench' = [bench EXCEPT !.by = "sail", !.dist[i] = d, !.was = bench.team,
                                 !.calls = 0]
  /\ BenchOnly

\* damageShip takes the last of a living ship's hull
SinkOne ==
  /\ bench.on = "slots"
  /\ \E i \in AliveIdx(bench.team) :
       bench' = [bench EXCEPT !.by = "sink", !.was = bench.team, !.calls = 1,
                              !.team = damageShip(bench.team, i)]
  /\ BenchOnly

\* the next aiStep of the team elects a commander if there is none
Elect ==
  /\ bench.on = "slots"
  /\ CurrentCommander(bench.team) = 0
  /\ AliveIdx(bench.team) # {}
  /\ bench' = [bench EXCEPT !.by = "elect", !.was = bench.team, !.calls = 0,
                            !.team = pickCapitalLeader(bench.team).arr]
  /\ BenchOnly

MaxCalls == 3

\* reassignEscortPositions once more, straight after a sinking's call
ReassignAgain ==
  /\ bench.on = "slots"
  /\ bench.calls \in 1..(MaxCalls - 1)
  /\ bench' = [bench EXCEPT !.by = "reassign", !.calls = @ + 1,
                            !.team = reassignEscortPositions(bench.team)]
  /\ BenchOnly

NextSlots == Sail \/ SinkOne \/ Elect \/ ReassignAgain

SpecSlots == InitSlots /\ [][NextSlots]_vars

LivingEscorts(arr) == {i \in AliveIdx(arr) : IsEscort(arr[i].kind)}

LivingCapitals(arr) == {i \in AliveIdx(arr) : IsCapital(arr[i].kind)}

\* C27 as stated: after a sinking or an election, of any two living escorts
\* the one nearer to the capitals holds the lower slot.
C27_NearerHoldsLowerSlot ==
  (bench.on = "slots" /\ bench.by \in {"sink", "elect"})
    => \A a, b \in LivingEscorts(bench.team) :
         bench.dist[a] < bench.dist[b]
           => bench.team[a].escortPosition < bench.team[b].escortPosition

\* C27, amended: after a sinking or an election, of any two living escorts
\* the one that held the lower slot before still holds the lower slot.
C27_SlotOrderKept ==
  (bench.on = "slots" /\ bench.by \in {"sink", "elect"})
    => \A a, b \in LivingEscorts(bench.team) :
         bench.was[a].escortPosition < bench.was[b].escortPosition
           => bench.team[a].escortPosition < bench.team[b].escortPosition

\* a sinking moved two escorts down a slot, and the nearer of them holds the
\* higher slot
C27_Witness ==
  /\ bench.on = "slots"
  /\ bench.by = "sink"
  /\ \E a, b \in LivingEscorts(bench.team) :
       /\ bench.dist[a] < bench.dist[b]
       /\ bench.was[a].escortPosition > bench.was[b].escortPosition
       /\ bench.team[a].escortPosition > bench.team[b].escortPosition
       /\ bench.team[a].escortPosition < bench.was[a].escortPosition
       /\ bench.team[b].escortPosition < bench.was[b].escortPosition

\* C28: a call of reassignEscortPositions that follows another leaves every
\* ship as the first call left it, slot index and slot offsets included.
C28_ReassignIdempotent ==
  [][(bench.on = "slots" /\ bench'.by = "reassign") => bench'.team = bench.team]_vars

\* the third call in a row, after a sinking whose own call moved an escort to
\* another slot
C28_Witness ==
  /\ bench.on = "slots"
  /\ bench.by = "reassign"
  /\ bench.calls >= 3
  /\ \E a \in LivingEscorts(bench.team) :
       /\ bench.team[a].escortPosition # bench.was[a].escortPosition
       /\ bench.team[a].form # bench.was[a].form

\* C29: when the team has no living capital ship or no living escort, the
\* slot assignment run at muster, by a sinking or once more after it changes
\* no field of any ship (but the alive and hp of the ship that sank).
C29_NoSlotChangeWithoutCapitalOrEscort ==
  (/\ bench.on = "slots"
   /\ bench.by \in {"muster", "sink", "reassign"}
   /\ (LivingCapitals(bench.team) = {} \/ LivingEscorts(bench.team) = {}))
    => \A j \in Idx(bench.team) :
         [bench.team[j] EXCEPT !.alive = bench.was[j].alive, !.hp = bench.was[j].hp]
           = bench.was[j]

\* an escort sank with no capital ship left, and a living escort holds a slot
\* behind the one it vacated
C29_Witness ==
  /\ bench.on = "slots"
  /\ bench.by = "sink"
  /\ LivingCapitals(bench.team) = {}
  /\ \E a \in LivingEscorts(bench.team), d \in Idx(bench.team) :
       /\ IsEscort(bench.team[d].kind)
       /\ bench.was[d].alive
       /\ ~bench.team[d].alive
       /\ bench.was[d].escortPosition < bench.team[a].escortPosition

-----------------------------------------------------------------------------
(* One tick's work on the ships of a team of which some have sunk.  helm     *)
(* holds what the fleet records leave out: heading, rudder, turn rate,       *)
(* throttle and velocity of each ship.                                       *)

WreckRoster == <<"BB", "DD", "TB">>

\* a ship under way: the rudder over or amidships, on one of two headings
Helms ==
  {[kind |-> "BB", heading |-> hd, rudderAngle |-> ra, angularVel |-> 0,
    throttle |-> HalfThrottle, currentSpeed |-> topSpeed("BB") \div 2,
    vx |-> topSpeed("BB") \div 2, vy |-> 0] :
     hd \in {0, 7854}, ra \in {0, MAX_RUDDER_ANGLE}}

\* escorts that have held their slots past the dwell time are locked
lockedIn(arr, S) ==
  [i \in Idx(arr) |->
     IF i \in S THEN [arr[i] EXCEPT !.escortLocked = TRUE, !.timeInPosition = MIN_DWELL]
     ELSE arr[i]]

\* the ships of order sink one after the other
RECURSIVE sunkInTurn(_, _)
sunkInTurn(arr, order) ==
  IF order = <<>> THEN arr ELSE sunkInTurn(damageShip(arr, order[1]), Tail(order))

\* up to two sinkings, in any order
Sinkings ==
  {<<>>} \cup {<<a>> : a \in DOMAIN WreckRoster}
         \cup {o \in (DOMAIN WreckRoster) \X (DOMAIN WreckRoster) : o[1] # o[2]}

\* a battle some way in: escorts locked or not, the commander on a route or
\* not, some ships sunk, a new commander elected or not yet
Battles ==
  {LET formed == setFormation(Fleet(WreckRoster))
       fleet == lockedIn(assignEscortPositions(formed, escortsByDist(formed, <<0, 1, 2>>)), S)
       routed == IF moving THEN [fleet EXCEPT ![1] = UnderWay(@)] ELSE fleet
       hit == sunkInTurn(routed, order)
   IN IF elected THEN pickCapitalLeader(hit).arr ELSE hit :
     S \in SUBSET EscortsOf(WreckRoster), moving \in BOOLEAN, order \in Sinkings,
     elected \in BOOLEAN}

InitWreck ==
  /\ NoBattle
  /\ \E team \in Battles, h \in Helms :
       bench = [on |-> "wreck", by |-> "afloat", i |-> 0, ran |-> "none",
                team |-> team, was |-> team,
                helm |-> [j \in Idx(team) |-> [h EXCEPT !.kind = team[j].kind]],
                wasHelm |-> [j \in Idx(team) |-> [h EXCEPT !.kind = team[j].kind]]]

\* applyRudder on the helm
ruddered(h, desiredTurn, dtv) ==
  LET r == applyRudderTo([kind |-> h.kind, rudderAngle |-> Num(h.rudderAngle),
                          angularVel |-> Num(h.angularVel), heading |-> Num(h.heading)],
                         desiredTurn, dtv)
  IN [h EXCEPT !.rudderAngle = r.rudderAngle.v, !.angularVel = r.angularVel.v,
               !.heading = r.heading.v]

\* updateAIThrottle, then steerToPoint's applyRudder
steered(h, targetThrottle, desiredTurn, dtv) ==
  ruddered([h EXCEPT !.throttle = updateAIThrottle(@, targetThrottle, dtv)],
           desiredTurn, dtv)

\* the locked escort: heading drawn to the leader's, the rudder eased (nothing
\* to avoid), the throttle set from the leader's speed
lockedHelm(h, lead, dtv) ==
  LET headingDiff == normAngle(lead.heading - h.heading, TAU)
      leaderSpeed == Hypot(lead.vx, lead.vy)
  IN [h EXCEPT
        !.heading = normAngle(h.heading + Scale(headingDiff * 3 * dtv * 60, 1, 100000), TAU),
        !.rudderAngle = lockedRudder(@),
        !.throttle = lockedThrottle(leaderSpeed, topSpeed(h.kind))]

\* playerControl: updateThrottle, then applyPlayerRudder
helmed(h, keyW, steerInput, dtv) ==
  LET r == applyPlayerRudderTo([kind |-> h.kind, rudderAngle |-> Num(h.rudderAngle),
                                angularVel |-> Num(h.angularVel),
                                heading |-> Num(h.heading)], steerInput, dtv)
  IN [h EXCEPT !.throttle = updateThrottle(@, keyW, FALSE, dtv),
               !.rudderAngle = r.rudderAngle.v, !.angularVel = r.angularVel.v,
               !.heading = r.heading.v]

\* aiStep, aiStepPlayer and capitalAutoPilot for ship i of the team
aiTurnMutNoAliveTest(b, i, d, vis, arrived, desiredTurn, dtv) ==
  LET r == pickCapitalLeader(b.team) IN
  IF r.leader # 0 /\ r.arr[r.leader].alive /\ r.leader # i
    THEN LET followed == FollowFormation(r.arr[i], d, FALSE, dtv)
         IN [b EXCEPT
               !.ran = "formation",
               !.team = [r.arr EXCEPT ![i] = followed],
               !.helm[i] = IF followed.escortLocked
                             THEN lockedHelm(@, b.helm[r.leader], dtv)
                             ELSE steered(@, FullThrottle, desiredTurn, dtv)]
    ELSE [b EXCEPT
            !.ran = "command",
            !.team = [r.arr EXCEPT ![i] = CommandFleet(r.arr[i], vis, arrived,
                                                       <<"e1", "e2">>, <<"p1">>)],
            !.helm[i] = steered(@, FullThrottle, desiredTurn, dtv)]

aiTurn(b, i, d, vis, arrived, desiredTurn, dtv) ==
  LET r == pickCapitalLeader(b.team) IN
  IF ~b.team[i].alive THEN [b EXCEPT !.ran = "none"]
  ELSE IF r.leader # 0 /\ r.arr[r.leader].alive /\ r.leader # i
    THEN LET followed == FollowFormation(r.arr[i], d, FALSE, dtv)
         IN [b EXCEPT
               !.ran = "formation",
               !.team = [r.arr EXCEPT ![i] = followed],
               !.helm[i] = IF followed.escortLocked
                             THEN lockedHelm(@, b.helm[r.leader], dtv)
                             ELSE steered(@, FullThrottle, desiredTurn, dtv)]
    ELSE [b EXCEPT
            !.ran = "command",
            !.team = [r.arr EXCEPT ![i] = CommandFleet(r.arr[i], vis, arrived,
                                                       <<"e1", "e2">>, <<"p1">>)],
            !.helm[i] = steered(@, FullThrottle, desiredTurn, dtv)]

\* the enemy loop, and the player loop in spectator mode
AiTurn ==
  /\ bench.on = "wreck"
  /\ bench.by = "afloat"
  /\ \E i \in Idx(bench.team), d \in {0, ESCORT_LOCK_RADIUS * 4}, vis \in {"none", "ship"},
        arrived \in BOOLEAN, desiredTurn \in {0, MAX_RUDDER_ANGLE \div 4} :
       bench' = [aiTurn(bench, i, d, vis, arrived, desiredTurn, DT_CLAMP)
                   EXCEPT !.by = "ai", !.i = i]
  /\ BenchOnly

\* the player loop of tick, normal mode, for ship i: pickCapitalLeader first,
\* then the selected ship is steered by the keys, the lead runs
\* capitalAutoPilot and the others steer for their formation point
playerTurn(b, i, sel, d, vis, arrived, desiredTurn, keyW, steerInput, dtv) ==
  LET r == pickCapitalLeader(b.team)
      b1 == [b EXCEPT !.team = r.arr]
      lead == IF r.leader # 0 /\ r.arr[r.leader].alive THEN r.leader
              ELSE IF r.arr[sel].alive THEN sel
              ELSE 1
  IN IF ~r.arr[i].alive THEN [b1 EXCEPT !.ran = "none"]
     ELSE IF i = sel
       THEN [b1 EXCEPT !.ran = "playerControl",
                       !.helm[i] = helmed(@, keyW, steerInput, dtv)]
     ELSE IF ~r.arr[lead].alive THEN [b1 EXCEPT !.ran = "none"]
     ELSE IF i = lead THEN aiTurn(b1, i, d, vis, arrived, desiredTurn, dtv)
     ELSE [b1 EXCEPT !.ran = "steerToPoint",
                     !.helm[i] = steered(@, FullThrottle, desiredTurn, dtv)]

PlayerTurn ==
  /\ bench.on = "wreck"
  /\ bench.by = "afloat"
  /\ \E i \in Idx(bench.team), sel \in Idx(bench.team), d \in {0, ESCORT_LOCK_RADIUS * 4},
        vis \in {"none", "ship"}, arrived \in BOOLEAN,
        desiredTurn \in {0, MAX_RUDDER_ANGLE \div 4}, keyW \in BOOLEAN,
        steerInput \in {0, 1} :
       bench' = [playerTurn(bench, i, sel, d, vis, arrived, desiredTurn, keyW, steerInput,
                            DT_CLAMP)
                   EXCEPT !.by = "player", !.i = i]
  /\ BenchOnly

\* for (const s of state.player) physicsStep(s, dt)
PhysicsTurn ==
  /\ bench.on = "wreck"
  /\ bench.by = "afloat"
  /\ \E i \in Idx(bench.team), course \in {<<1000, 0>>, <<0, 1000>>} :
       LET h == bench.helm[i]
           moved == physicsStep([kind |-> h.kind, alive |-> bench.team[i].alive,
                                 throttle |-> h.throttle \div 1000,
                                 currentSpeed |-> h.currentSpeed, vx |-> h.vx, vy |-> h.vy],
                                course, DT_CLAMP)
       IN bench' = [bench EXCEPT
                      !.by = "physics", !.i = i, !.ran = "none",
                      !.helm[i] = [h EXCEPT !.currentSpeed = moved.currentSpeed,
                                            !.vx = moved.vx, !.vy = moved.vy]]
  /\ BenchOnly

\* a shell sinks one more ship: sinkIfDead and its reassignEscortPositions
WreckSink ==
  /\ bench.on = "wreck"
  /\ bench.by = "afloat"
  /\ \E i \in AliveIdx(bench.team) :
       bench' = [bench EXCEPT !.by = "sink", !.i = i, !.ran = "none",
                              !.team = damageShip(bench.team, i)]
  /\ BenchOnly

NextWreck == AiTurn \/ PlayerTurn \/ PhysicsTurn \/ WreckSink

SpecWreck == InitWreck /\ [][NextWreck]_vars

\* C30: a ship that was dead before a step of the tick is dead after it, with
\* the heading, rudder angle, throttle, lock state, slot index and planned
\* route it had, and when the step was its own turn no routine ran for it.
C30_SunkShipsAreLeftAlone ==
  (bench.on = "wreck" /\ bench.by # "afloat")
    => \A j \in Idx(bench.team) :
         ~bench.was[j].alive
           => /\ ~bench.team[j].alive
              /\ bench.helm[j].heading = bench.wasHelm[j].heading
              /\ bench.helm[j].rudderAngle = bench.wasHelm[j].rudderAngle
              /\ bench.helm[j].throttle = bench.wasHelm[j].throttle
              /\ bench.team[j].escortLocked = bench.was[j].escortLocked
              /\ bench.team[j].escortPosition = bench.was[j].escortPosition
              /\ bench.team[j].plannedPath = bench.was[j].plannedPath
              /\ (bench.i = j => bench.ran = "none")

\* the turn of a sunk, locked escort came in the AI loop while its team still
\* had a leader under way and another escort afloat, and the turn of the
\* sunk commander, still holding its route, came too
C30_Witness ==
  /\ bench.on = "wreck"
  /\ bench.by = "ai"
  /\ bench.i # 0
  /\ ~bench.was[bench.i].alive
  /\ \/ /\ bench.team[bench.i].escortLocked
        /\ bench.team[bench.i].escortPosition # 0
        /\ bench.helm[bench.i].rudderAngle # 0
        /\ LivingCapitals(bench.team) # {}
        /\ LivingEscorts(bench.team) # {}
     \/ /\ bench.team[bench.i].plannedPath # <<>>
        /\ bench.team[bench.i].isCommander

-----------------------------------------------------------------------------
(* A locked escort's tick beside its leader: heading and speed are drawn    *)
(* towards the leader's.  The course the new velocity lies on is the        *)
(* cosine and sine of the new heading, drawn here from the exact courses.   *)

\* the correction towards the slot adds at most 0.3 px/s
MAX_NUDGE == 3

InitBlend ==
  /\ NoBattle
  /\ \E heading \in {0, 7854, -20000}, c \in Courses, sp \in {0, 90, 182},
        leadHeading \in {0, 31000, -15708}, leadSpeed \in {0, 100, 182} :
       LET ship == [kind |-> "DD", heading |-> heading, rudderAngle |-> 0,
                    throttle |-> HalfThrottle,
                    vx |-> Scale(c[1] * sp, 1, 1000), vy |-> Scale(c[2] * sp, 1, 1000)]
       IN bench = [on |-> "blend", by |-> "spawn", dtv |-> 0, ship |-> ship,
                   before |-> ship,
                   lead |-> [heading |-> leadHeading, vx |-> leadSpeed, vy |-> 0]]

\* the locked branch of capitalAutoPilot, aiStep and aiStepPlayer
LockedBlend ==
  /\ bench.on = "blend"
  /\ bench.by = "spawn"
  /\ \E course \in Courses, toTarget \in Courses, dForm \in {0, 20, 60},
        dtv \in FrameTimes :
       bench' = [bench EXCEPT
                   !.by = "locked", !.dtv = dtv,
                   !.ship = lockedVelocity(lockedHelm(bench.ship, bench.lead, dtv), course,
                                           Hypot(bench.lead.vx, bench.lead.vy),
                                           toTarget, dForm, dtv)]
  /\ BenchOnly

NextBlend == LockedBlend

SpecBlend == InitBlend /\ [][NextBlend]_vars

-----------------------------------------------------------------------------
(* The time step of a tick *)

\* C33 as stated: the time step handed to the updates of a tick is at most
\* the clamp ceiling of 0.033 s.
C33_StepWithinClamp == pc # "idle" => dt <= DT_CLAMP

\* C33, amended: the time step is at most the clamp ceiling times the game
\* speed, which is 1 outside spectator mode and at most 4 in it.
C33_StepWithinClampTimesSpeed ==
  pc # "idle" => /\ dt <= DT_CLAMP * gameSpeed
                 /\ dt <= DT_CLAMP * 4
                 /\ ~spectatorMode => dt <= DT_CLAMP

\* the ships of a spectated battle are stepped at game speed 4
C33_Witness ==
  /\ pc = "ai"
  /\ spectatorMode
  /\ gameSpeed = 4
  /\ dt = DT_CLAMP * 4
  /\ idx >= 1


-----------------------------------------------------------------------------
(* entities.js: the ship a formation point is measured from *)

\* const capital = ship.escortTarget || leader
formationAnchor(arr, leader, i) ==
  IF arr[i].escortTarget # 0 THEN arr[i].escortTarget ELSE leader

\* C34: every living follower's formation anchor (its escortTarget, or the
\* leader when it has none) is a living ship, also after a capital has sunk
\* or the commander has changed
C34_AnchorIsAlive ==
  \A t \in Teams : \A i \in AliveIdx(Arr(t)) :
    LET a == formationAnchor(Arr(t), CurrentCommander(Arr(t)), i)
    IN (~Arr(t)[i].isCommander /\ a # 0) => Arr(t)[a].alive


-----------------------------------------------------------------------------
(* entities.js: the slots of the living escorts after a sinking (slot i of   *)
(* the code is slot i + 1 here)                                              *)

SlotsOf(arr) == {arr[i].escortPosition : i \in LivingEscorts(arr)}

\* C35: after a ship sinks, the n living escorts of its team hold exactly the
\* slot indices 0..n-1, each once, in the relative order they had before.
C35_SlotsCompactAfterSinking ==
  (bench.on = "slots" /\ bench.by = "sink")
    => LET E == LivingEscorts(bench.team) IN
       /\ SlotsOf(bench.team) = 1..Cardinality(E)
       /\ \A a, b \in E :
            bench.was[a].escortPosition < bench.was[b].escortPosition
              => bench.team[a].escortPosition < bench.team[b].escortPosition

\* C35, amended: after a ship sinks and leaves its team a living capital
\* ship, the n living escorts hold exactly the slot indices 0..n-1, each
\* once, in the relative order they had before.
C35_SlotsCompactWithCapital ==
  (bench.on = "slots" /\ bench.by = "sink" /\ LivingCapitals(bench.team) # {})
    => LET E == LivingEscorts(bench.team) IN
       /\ SlotsOf(bench.team) = 1..Cardinality(E)
       /\ \A a, b \in E :
            bench.was[a].escortPosition < bench.was[b].escortPosition
              => bench.team[a].escortPosition < bench.team[b].escortPosition

\* the escort of the first slot sank beside a living capital ship, and the
\* two escorts behind it each moved up a slot
C35_Witness ==
  /\ bench.on = "slots"
  /\ bench.by = "sink"
  /\ LivingCapitals(bench.team) # {}
  /\ Cardinality(LivingEscorts(bench.team)) = 2
  /\ \E d \in Idx(bench.team) :
       /\ bench.was[d].alive /\ ~bench.team[d].alive
       /\ bench.was[d].escortPosition = 1
       /\ IsEscort(bench.team[d].kind)
  /\ \A a \in LivingEscorts(bench.team) :
       bench.team[a].escortPosition = bench.was[a].escortPosition - 1


-----------------------------------------------------------------------------
(* ai.js: the commander's steering target and the head of its route *)

\* the tick ended in steerToPoint(ship, ship.ai.wpX, ship.ai.wpY, ..): every
\* tick but one that orbits an enemy capital
SteersAlongRoute == bench.on = "route" /\ bench.vis \in {"none", "ship"}

\* C36: whenever a commander steers along its planned route, its steering
\* target (ai.wpX, ai.wpY) is the first waypoint of plannedPath.
C36_SteersToFirstWaypoint ==
  SteersAlongRoute
    => /\ bench.ship.plannedPath # <<>>
       /\ bench.ship.wp = bench.ship.plannedPath[1]


-----------------------------------------------------------------------------
(* ai.js: the route state of a team's commander over updates, sinkings and   *)
(* elections.  state is the route state of the commander last returned by    *)
(* pickCapitalLeader, before what it was one step earlier.                   *)

CommandRoster == <<"BB", "CV", "DD">>

InitCommand ==
  /\ NoBattle
  /\ bench = [on |-> "command",
              team |-> assignEscortPositions(setFormation(Fleet(CommandRoster)), <<3>>),
              was |-> assignEscortPositions(setFormation(Fleet(CommandRoster)), <<3>>),
              by |-> "muster", vis |-> "none", elected |-> FALSE, leader |-> 1,
              state |-> "patrol", before |-> "patrol"]

\* aiStep of a living ship: the election, then the commander branch when the
\* ship is the leader (a follower's branch writes no route state)
AiUpdate ==
  /\ bench.on = "command"
  /\ \E i \in AliveIdx(bench.team), vis \in Sights :
       LET r == pickCapitalLeader(bench.team)
           seen(after) == [bench EXCEPT !.team = after,
                                        !.was = bench.team,
                                        !.by = "update",
                                        !.vis = vis,
                                        !.elected = ~bench.team[r.leader].isCommander,
                                        !.leader = r.leader,
                                        !.state = after[r.leader].routeState,
                                        !.before = bench.state]
       IN IF r.leader # 0 /\ r.arr[r.leader].alive /\ r.leader # i
            THEN bench' = seen(r.arr)
            ELSE \E arrived \in BOOLEAN,
                    engageRoute \in EngageRoutes, patrolRoute \in PatrolRoutes :
                   bench' = seen([r.arr EXCEPT ![i] =
                                    CommandFleet(r.arr[i], vis, arrived,
                                                 engageRoute, patrolRoute)])
  /\ BenchOnly

\* a shell takes the last of a living ship's hull
CommandSink ==
  /\ bench.on = "command"
  /\ \E i \in AliveIdx(bench.team) :
       bench' = [bench EXCEPT !.team = damageShip(bench.team, i),
                              !.was = bench.team,
                              !.by = "sink",
                              !.vis = "none",
                              !.elected = FALSE,
                              !.before = bench.state]
  /\ BenchOnly

NextCommand == AiUpdate \/ CommandSink

SpecCommand == InitCommand /\ [][NextCommand]_vars

\* C37: a commander's route state goes from patrol to engaging only in an
\* update in which an enemy is visible to its team, and from engaging back to
\* patrol only through the election of a new commander.
C37_RouteStateTransitions ==
  bench.on = "command"
    => /\ (bench.before = "patrol" /\ bench.state = "engaging")
            => (bench.by = "update" /\ bench.vis # "none")
       /\ (bench.before = "engaging" /\ bench.state = "patrol")
            => (bench.by = "update" /\ bench.elected)
       /\ \A i \in Idx(bench.team) :
            /\ (bench.was[i].routeState = "patrol" /\ bench.team[i].routeState = "engaging")
                 => (bench.by = "update" /\ bench.vis # "none" /\ i = bench.leader)
            /\ (bench.was[i].routeState = "engaging" /\ bench.team[i].routeState = "patrol")
                 => (bench.by = "update" /\ bench.elected /\ i = bench.leader)

\* the battleship went to engaging on a sighting and sank; the election made
\* the carrier commander, on patrol with no enemy in sight
C37_Witness ==
  /\ bench.on = "command"
  /\ bench.by = "update"
  /\ bench.elected
  /\ bench.vis = "none"
  /\ bench.before = "engaging"
  /\ bench.state = "patrol"
  /\ ~bench.team[1].alive
  /\ bench.team[1].routeState = "engaging"
  /\ bench.leader = 2


-----------------------------------------------------------------------------
(* One tick's damage to the hulls of a team: ramming in separationTeam and   *)
(* checkShipCollisions, grounding in physicsStep, shells and torpedoes, then *)
(* fire and flooding in statusStep.                                          *)

HullRoster == <<"BB", "DD", "TB">>

MaxHull == 2

Damages == 1..MaxHull

\* a.hp -= dmg; b.hp -= dmg
rammed(arr, i, j, dmg) == [arr EXCEPT ![i].hp = @ - dmg, ![j].hp = @ - dmg]

\* ship.hp -= ship.kind.hp * 0.02 * dt, and a ram by a ship of the other team
holed(arr, i, dmg) == [arr EXCEPT ![i].hp = @ - dmg]

\* ship.hp -= reduced; sinkIfDead(ship, state)
damageShipBy(arr, i, dmg) == sinkIfDead([arr EXCEPT ![i].hp = @ - dmg], i)

InitHull ==
  /\ NoBattle
  /\ bench = [on |-> "hull", stage |-> "idle", ram |-> {},
              team |-> [i \in DOMAIN HullRoster |->
                          [assignEscortPositions(setFormation(Fleet(HullRoster)),
                                                 <<2, 3>>)[i] EXCEPT !.hp = MaxHull]]]

\* the ship loops: no hull is touched
HullAi ==
  /\ bench.on = "hull"
  /\ bench.stage = "idle"
  /\ AliveIdx(bench.team) # {}
  /\ bench' = [bench EXCEPT !.stage = "separation", !.ram = {}]
  /\ BenchOnly

\* separationTeam: a pair of living ships of the team may overlap
SeparationRam ==
  /\ bench.on = "hull"
  /\ bench.stage = "separation"
  /\ \/ bench' = [bench EXCEPT !.stage = "collisions"]
     \/ \E i, j \in AliveIdx(bench.team), dmg \in Damages :
          /\ i < j
          /\ bench' = [bench EXCEPT !.stage = "collisions",
                                    !.team = rammed(bench.team, i, j, dmg),
                                    !.ram = {k \in {i, j} : bench.team[k].hp <= dmg}]
  /\ BenchOnly

\* checkShipCollisions, then physicsStep's resolveShipLand
CollideOrGround ==
  /\ bench.on = "hull"
  /\ bench.stage = "collisions"
  /\ \/ bench' = [bench EXCEPT !.stage = "shells"]
     \/ \E i \in AliveIdx(bench.team), dmg \in Damages :
          bench' = [bench EXCEPT !.stage = "shells",
                                 !.team = holed(bench.team, i, dmg)]
  /\ BenchOnly

\* shellsStep, missilesStep: if (!t.alive) continue
ShellsStep ==
  /\ bench.on = "hull"
  /\ bench.stage = "shells"
  /\ \/ bench' = [bench EXCEPT !.stage = "status"]
     \/ \E i \in AliveIdx(bench.team), dmg \in Damages :
          bench' = [bench EXCEPT !.stage = "status",
                                 !.team = damageShipBy(bench.team, i, dmg)]
  /\ BenchOnly

\* statusStep ends the tick's work on the hulls
StatusStep ==
  /\ bench.on = "hull"
  /\ bench.stage = "status"
  /\ \E burnt \in SUBSET AliveIdx(bench.team) :
       bench' = [bench EXCEPT !.stage = "idle",
                              !.team = statusStep(bench.team, burnt)]
  /\ BenchOnly

NextHull == HullAi \/ SeparationRam \/ CollideOrGround \/ ShellsStep \/ StatusStep

SpecHull == InitHull /\ [][NextHull]_vars

\* C38: at every tick boundary every ship flagged alive has hit points above
\* 0: a hull emptied by ramming, grounding, fire, flooding or weapons is
\* marked dead within the same tick.
C38_AliveShipsHaveHitPoints ==
  (bench.on = "hull" /\ bench.stage = "idle")
    => \A i \in Idx(bench.team) : bench.team[i].alive => bench.team[i].hp > 0

\* a ram in separationTeam emptied a hull, and the tick ended with that ship
\* marked dead beside a living teammate
C38_Witness ==
  /\ bench.on = "hull"
  /\ bench.stage = "idle"
  /\ \E i \in bench.ram : ~bench.team[i].alive /\ bench.team[i].hp = 0
  /\ AliveIdx(bench.team) # {}


-----------------------------------------------------------------------------
(* A player escort that is neither the selected ship nor the leader, stepped *)
(* by tick's player loop in normal mode and by aiStepPlayer in spectator     *)
(* mode.  was is the ship before the step, d its distance to its formation   *)
(* point, dtv the frame's dt.                                                *)

ModeSpeeds == {1, 2, 4}

Recruit == assignEscortPositions(setFormation(Fleet(<<"BB", "DD">>)), <<2>>)[2]

InitModes ==
  /\ NoBattle
  /\ bench = [on |-> "modes", mode |-> "normal", by |-> "reset", ship |-> Recruit,
              was |-> Recruit, d |-> 0, dtv |-> 0, hasEnemy |-> FALSE]

\* startBtn, spectatorBtn: resetWorld builds the fleets anew
ModesReset ==
  /\ bench.on = "modes"
  /\ \E mode \in {"normal", "spectator"} :
       bench' = [bench EXCEPT !.mode = mode, !.by = "reset", !.ship = Recruit,
                              !.was = Recruit, !.d = 0, !.dtv = 0, !.hasEnemy = FALSE]
  /\ BenchOnly

\* the else branch of the normal-mode loop: formationPoint, updateAIThrottle,
\* steerToPoint, turretStep; escortLocked and timeInPosition are not written
ModesNormalStep ==
  /\ bench.on = "modes"
  /\ bench.mode = "normal"
  /\ \E d \in DistChoices, hasEnemy \in BOOLEAN :
       bench' = [bench EXCEPT !.by = "normal", !.was = bench.ship,
                              !.d = d, !.dtv = DT_CLAMP, !.hasEnemy = hasEnemy]
  /\ BenchOnly

\* aiStepPlayer's non-commander branch
ModesSpectatorStep ==
  /\ bench.on = "modes"
  /\ bench.mode = "spectator"
  /\ \E d \in DistChoices, hasEnemy \in BOOLEAN, speed \in ModeSpeeds :
       /\ InRadius(d) => bench.ship.timeInPosition + DT_CLAMP * speed <= MaxTimer
       /\ bench' = [bench EXCEPT
                      !.by = "spectator", !.was = bench.ship,
                      !.d = d, !.dtv = DT_CLAMP * speed, !.hasEnemy = hasEnemy,
                      !.ship = FollowFormation(bench.ship, d, hasEnemy, DT_CLAMP * speed)]
  /\ BenchOnly

NextModes == ModesReset \/ ModesNormalStep \/ ModesSpectatorStep

SpecModes == InitModes /\ [][NextModes]_vars

\* C39: a step of a non-commander player ship under AI control takes the ship
\* through the lock state machine (dwell inside the lock radius to lock, unlock
\* only beyond the unlock radius) in normal mode as it does in spectator mode.
C39_SameLockMachineInBothModes ==
  (bench.on = "modes" /\ bench.by \in {"normal", "spectator"})
    => bench.ship = FollowFormation(bench.was, bench.d, bench.hasEnemy, bench.dtv)


-----------------------------------------------------------------------------
(* game.js: levels.  A battle of two small fleets ends in endCheck; Next     *)
(* Level and Restart are the buttons below the chart.  outcome is the        *)
(* message endCheck showed when it ended the battle.                         *)

\* resetWorld(Math.min(6, state.level + 1))
LAST_LEVEL == 6

LevelFleet == Fleet(<<"BB", "DD", "TB">>)

\* the message of the endCheck call that ends the battle
endMessage(wasEnded, p, e) ==
  IF wasEnded THEN "none"
  ELSE IF AliveIdx(p) = {} THEN "defeat"
  ELSE IF AliveIdx(e) = {} THEN "victory"
  ELSE "none"

\* resetWorld(level)
levelReset(level) ==
  [on |-> "levels", level |-> level, started |-> TRUE, ended |-> FALSE,
   outcome |-> "none", player |-> LevelFleet, enemy |-> LevelFleet]

InitLevels ==
  /\ NoBattle
  /\ bench = [levelReset(1) EXCEPT !.started = FALSE] @@ [by |-> "load", was |-> 1, how |-> "none"]

\* startBtn: if (!state.started) { .. resetWorld(1) }
LevelsStart ==
  /\ bench.on = "levels"
  /\ ~bench.started
  /\ bench' = levelReset(1) @@ [by |-> "start", was |-> bench.level, how |-> bench.outcome]
  /\ BenchOnly

\* a tick of a running battle: shells sink ships of either fleet, then endCheck
LevelsTick ==
  /\ bench.on = "levels"
  /\ bench.started /\ ~bench.ended
  /\ \E hp \in SUBSET AliveIdx(bench.player), he \in SUBSET AliveIdx(bench.enemy) :
       LET p == statusStep(bench.player, hp)
           e == statusStep(bench.enemy, he)
       IN bench' = [bench EXCEPT !.player = p, !.enemy = e,
                                 !.ended = endCheck(bench.ended, p, e),
                                 !.outcome = endMessage(bench.ended, p, e),
                                 !.by = "tick", !.was = bench.level,
                                 !.how = bench.outcome]
  /\ BenchOnly

\* restartLevel
LevelsRestart ==
  /\ bench.on = "levels"
  /\ bench.started
  /\ bench' = levelReset(bench.level)
                @@ [by |-> "restart", was |-> bench.level, how |-> bench.outcome]
  /\ BenchOnly

\* nextLevel
LevelsNext ==
  /\ bench.on = "levels"
  /\ bench.started
  /\ bench.ended
  /\ bench' = levelReset(IF bench.level + 1 < LAST_LEVEL THEN bench.level + 1 ELSE LAST_LEVEL)
                @@ [by |-> "next", was |-> bench.level, how |-> bench.outcome]
  /\ BenchOnly

NextLevels == LevelsStart \/ LevelsTick \/ LevelsRestart \/ LevelsNext

SpecLevels == InitLevels /\ [][NextLevels]_vars

\* C40: nextLevel resets the world at level + 1 only after a battle that
\* ended in victory; after a battle that ended in defeat it does not advance
\* the level.
C40_LevelAdvancesOnlyAfterVictory ==
  (bench.on = "levels" /\ bench.by = "next" /\ bench.level > bench.was)
    => bench.how = "victory"

====
